---- MODULE Spec2Model ----
(***************************************************************************)
(* A model of delta-rcm: the claim analytics (src/utils/analytics.ts), the *)
(* claim parsers and the exporter (src/utils/parser.ts) and the upload of  *)
(* a batch of files (processFiles of UploadScreen).                        *)
(*                                                                         *)
(* Conventions.                                                            *)
(*  - Money (paid, charge, rates) is an integer number of cents.           *)
(*  - A JavaScript string whose characters matter (a patient id, a cell)   *)
(*    is a sequence of one-character strings; a string that is only        *)
(*    compared as a whole (a payer, a procedure code) is a TLA+ string.    *)
(*  - A Date | null is a sequence: << >> for null, <<t>> for the date      *)
(*    whose getTime() is t.                                                *)
(*  - A JavaScript Map is a function (when only lookups matter) or a       *)
(*    sequence in insertion order (when it is turned into an array).       *)
(*  - Positions in arrays count from 1; 0 stands for -1 and for undefined. *)
(*  - A Promise is a record: pending, fulfilled with a result, or rejected  *)
(*    with a reason. The steps between two awaits are one action.          *)
(***************************************************************************)
EXTENDS Integers, Sequences, FiniteSets, TLC

VARIABLES
    pc,        \* position of the run: which operation has acted
    claims,    \* Claim[]: the claim set the analytics read (App.tsx claims)
    rates,     \* result of calculateReimbursementRates(claims)
    locals,    \* per (payer, cpt): the locals of calculateReimbursementRates
    stats,     \* result of calculateDenialOpportunity(claims, rates)
    patients,  \* analyzePatients: the patients map, then the returned array
    cursor,    \* analyzePatients: how many claims the first forEach has visited
    layout,    \* the kind of the file parsed last: "csv", "payment" or "visit"
    row,       \* the row a parse loop has read last
    nRows,     \* rows read so far in the batch
    fileClaims,\* parseClaimsData / parseExcelReport: the claims array being built
    idCounter, \* parseClaimsData / parseExcelReport: idCounter
    results,   \* processFiles: the parse results of the files done, in file order
    files,     \* processFiles: the FileList of the batch
    promises,  \* processFiles: processingPromises, one promise per file
    allPromise,\* processFiles: the promise of Promise.all(processingPromises)
    error,     \* UploadScreen: the error state (setError)
    isProcessing, \* UploadScreen: the isProcessing state
    delivered, \* the claim lists onDataLoaded was called with, in call order
    providerName, \* UploadScreen: the providerName state (the fallback provider)
    completed, \* processFiles: the files whose read has completed, in that order
    runs,      \* the processFiles calls of several drops, one record per call
    value,     \* downloadCSV: the value passed to escape
    line,      \* downloadCSV: what escape returned
    tokens,    \* parseCSVLine(line, ','): the rows of fields
    timezone,  \* the machine's offset from UTC in minutes, east positive
    scan       \* parseCSVLine: its local variables while it reads a text

analyticsVars == <<rates, locals, stats, patients, cursor>>

parseVars == <<layout, row, nRows, fileClaims, idCounter, results>>

uploadVars ==
    <<files, promises, allPromise, error, isProcessing, delivered, providerName, completed, runs>>

exportVars == <<value, line, tokens, timezone, scan>>

vars == <<pc, claims, rates, locals, stats, patients, cursor,
          layout, row, nRows, fileClaims, idCounter, results,
          files, promises, allPromise, error, isProcessing, delivered, providerName,
          completed, runs,
          value, line, tokens, timezone, scan>>

----------------------------------------------------------------------------
(* Generic helpers                                                          *)

Range(s) == {s[i] : i \in DOMAIN s}

SeqsUpTo(S, n) == UNION {[1..k -> S] : k \in 0..n}

RECURSIVE SumSeq(_)
SumSeq(s) == IF s = <<>> THEN 0 ELSE Head(s) + SumSeq(Tail(s))

\* The elements of a set of integers as an ascending sequence.
RECURSIVE SortAsc(_)
SortAsc(S) ==
    IF S = {} THEN <<>>
    ELSE LET m == CHOOSE x \in S : \A y \in S : x <= y
         IN <<m>> \o SortAsc(S \ {m})

\* The distinct elements of a sequence in order of first occurrence.
RECURSIVE FirstOccurrences(_)
FirstOccurrences(s) ==
    IF s = <<>> THEN <<>>
    ELSE LET init == FirstOccurrences(SubSeq(s, 1, Len(s) - 1))
             x == s[Len(s)]
         IN IF x \in Range(init) THEN init ELSE Append(init, x)

----------------------------------------------------------------------------
(* Claim records (types.ts Claim)                                           *)

\* The parsers build isPaid from paid: isPaid: paid > 0.01 (1 cent).
IsPaidAmount(paid) == paid > 1

MkClaim(payer, cpt, paid, units, charge, patientId, dos) ==
    [id |-> 0, payer |-> payer, cpt |-> cpt, units |-> units,
     charge |-> charge, paid |-> paid, isPaid |-> IsPaidAmount(paid),
     patientId |-> patientId, patientName |-> patientId, dos |-> dos]

\* processFiles: combinedClaims.map((c, i) => ({...c, id: i + 1})).
ReindexKeepIds(cs) == cs

Reindex(cs) == [i \in DOMAIN cs |-> [cs[i] EXCEPT !.id = i]]

\* The parsers are not running: the analytics read a claim set already loaded.
NoParse ==
    /\ layout = "none"
    /\ row = <<>>
    /\ nRows = 0
    /\ fileClaims = <<>>
    /\ idCounter = 1
    /\ results = <<>>

\* A promise: pending, fulfilled with a value, or rejected with a reason.
\* An error message is the constant texts of the source it is put together
\* from, followed by the file name interpolated at its end (no characters
\* when none is); null is the message of no text.
NoMessage == [text |-> <<>>, name |-> <<>>]

Pending == [state |-> "pending", result |-> <<>>, reason |-> NoMessage]

Fulfilled(v) == [state |-> "fulfilled", result |-> v, reason |-> NoMessage]

Rejected(msg) == [state |-> "rejected", result |-> <<>>, reason |-> msg]

\* No upload is running: UploadScreen as mounted.
NoUpload ==
    /\ files = <<>>
    /\ promises = <<>>
    /\ allPromise = Pending
    /\ error = NoMessage
    /\ isProcessing = FALSE
    /\ delivered = <<>>
    /\ providerName = <<>>
    /\ completed = <<>>
    /\ runs = <<>>

\* parseCSVLine is not running.
NoScan ==
    [i |-> 0, delim |-> ",", field |-> <<>>, row |-> <<>>, rows |-> <<>>, inQuotes |-> FALSE]

\* No export is running.
NoExport ==
    /\ value = <<>>
    /\ line = <<>>
    /\ tokens = <<>>
    /\ timezone = 0
    /\ scan = NoScan


----------------------------------------------------------------------------
(* calculateReimbursementRates                                              *)

\* claims.filter(c => c.isPaid && c.paid > 0 && c.units > 0)
QualifiesNoIsPaid(c) == c.paid > 0 /\ c.units > 0

Qualifies(c) == c.isPaid /\ c.paid > 0 /\ c.units > 0

\* Math.round(paid / units * 100) / 100, in cents: Math.round rounds a half up.
RoundedRate(c) == (2 * c.paid + c.units) \div (2 * c.units)

KeyOf(c) == <<c.payer, c.cpt>>

\* pricingHistory: (payer, cpt) -> the rounded rates pushed, in input order.
PricingHistory(cs) ==
    LET q == SelectSeq(cs, Qualifies)
        keys == {KeyOf(q[i]) : i \in DOMAIN q}
    IN [k \in keys |->
            LET g == SelectSeq(q, LAMBDA c : KeyOf(c) = k)
            IN [i \in DOMAIN g |-> RoundedRate(g[i])]]

\* frequency[r]: how often r was pushed.
Frequency(rs, r) == Cardinality({i \in DOMAIN rs : rs[i] = r})

\* A key of the frequency object is the rate's decimal text; the text of a
\* whole number of dollars is an array-index key.
IsIndexKey(r) == r % 100 = 0

\* Object.entries(frequency): the index keys in ascending numeric order, then
\* the other keys in insertion order.
EntriesOrder(rs) ==
    SortAsc({r \in Range(rs) : IsIndexKey(r)})
        \o SelectSeq(FirstOccurrences(rs), LAMBDA r : ~IsIndexKey(r))

\* rates.forEach(r => { ...; if (r > maxRate) maxRate = r; }) from maxRate = 0.
RECURSIVE MaxRateLoop(_, _)
MaxRateLoop(rs, maxRate) ==
    IF rs = <<>> THEN maxRate
    ELSE MaxRateLoop(Tail(rs), IF Head(rs) > maxRate THEN Head(rs) ELSE maxRate)

\* One iteration of the loop over Object.entries(frequency).
ModeStepFirstWins(acc, r, freq) ==
    IF freq > acc.maxFreq THEN [modeRate |-> r, maxFreq |-> freq] ELSE acc

ModeStep(acc, r, freq) ==
    IF freq > acc.maxFreq THEN [modeRate |-> r, maxFreq |-> freq]
    ELSE IF freq = acc.maxFreq /\ r > acc.modeRate THEN [acc EXCEPT !.modeRate = r]
    ELSE acc

RECURSIVE ModeLoop(_, _, _)
ModeLoop(entries, rs, acc) ==
    IF entries = <<>> THEN acc
    ELSE ModeLoop(Tail(entries), rs,
                  ModeStep(acc, Head(entries), Frequency(rs, Head(entries))))

\* The locals of one (payer, cpt) iteration after both loops.
GroupLocals(rs) ==
    LET m == ModeLoop(EntriesOrder(rs), rs, [modeRate |-> 0, maxFreq |-> 0])
    IN [maxRate |-> MaxRateLoop(rs, 0), modeRate |-> m.modeRate,
        maxFreq |-> m.maxFreq, distinctRates |-> Cardinality(Range(rs))]

\* if (distinctRates > 2) Mode else Max.
SelectRateAtLeast2(l) ==
    IF l.distinctRates >= 2
    THEN [finalRate |-> l.modeRate, method |-> "Mode"]
    ELSE [finalRate |-> l.maxRate, method |-> "Max"]

SelectRate(l) ==
    IF l.distinctRates > 2
    THEN [finalRate |-> l.modeRate, method |-> "Mode"]
    ELSE [finalRate |-> l.maxRate, method |-> "Max"]

\* frequency: maxFreq
EntryFrequencyOfFinal(rs, l) == Frequency(rs, SelectRate(l).finalRate)

EntryFrequency(rs, l) == l.maxFreq

RateEntry(k, rs) ==
    LET l == GroupLocals(rs)
        sel == SelectRate(l)
    IN [payer |-> k[1], cpt |-> k[2], expectedRate |-> sel.finalRate,
        method |-> sel.method, frequency |-> EntryFrequency(rs, l)]

calculateReimbursementRates(cs) ==
    LET ph == PricingHistory(cs)
    IN [k \in DOMAIN ph |-> RateEntry(k, ph[k])]

RateLocals(cs) ==
    LET ph == PricingHistory(cs)
    IN [k \in DOMAIN ph |-> GroupLocals(ph[k])]

----------------------------------------------------------------------------
(* Inputs of the rate inference runs                                        *)

MaxRateClaims == 5

Payers == {"P1", "P2"}
Cpts == {"A1", "99"}

\* (paid, units): rates 63 (62.5 rounded), 100 and 150 cents; a payment of one
\* cent (not isPaid); a line with no units.
RateLines == {<<125, 2>>, <<200, 2>>, <<300, 2>>, <<1, 2>>, <<300, 0>>}

RateClaimPool ==
    {MkClaim("P1", "A1", l[1], l[2], 0, <<"A">>, <<>>) : l \in RateLines}
    \cup {MkClaim(k[1], k[2], l[1], l[2], 0, <<"A">>, <<>>) :
            k \in {<<"P2", "A1">>, <<"P1", "99">>}, l \in {<<200, 2>>}}

RateInputs == {Reindex(s) : s \in SeqsUpTo(RateClaimPool, MaxRateClaims)}

----------------------------------------------------------------------------
(* Rate inference runs: App.tsx rates = useMemo(calculateReimbursementRates) *)

InitRates ==
    /\ pc = "loaded"
    /\ claims \in RateInputs
    /\ rates = <<>>
    /\ locals = <<>>
    /\ stats = <<>>
    /\ patients = <<>>
    /\ cursor = 0
    /\ NoParse
    /\ NoUpload
    /\ NoExport

CalcRates ==
    /\ pc = "loaded"
    /\ rates' = calculateReimbursementRates(claims)
    /\ locals' = RateLocals(claims)
    /\ pc' = "rated"
    /\ UNCHANGED <<claims, stats, patients, cursor>>
    /\ UNCHANGED parseVars
    /\ UNCHANGED <<uploadVars, exportVars>>

NextRates == CalcRates

SpecRates == InitRates /\ [][NextRates]_vars

----------------------------------------------------------------------------
(* calculateDenialOpportunity                                               *)

\* claims.filter(c => !c.isPaid)
IsDeniedAnyClaim(c) == TRUE

IsDenied(c) == ~c.isPaid

\* rates.get(c.payer)?.get(c.cpt); if (rateObj) units * expectedRate.
ProjectedAddOrCharge(c, rt) ==
    IF KeyOf(c) \in DOMAIN rt THEN c.units * rt[KeyOf(c)].expectedRate ELSE c.charge

ProjectedAdd(c, rt) ==
    IF KeyOf(c) \in DOMAIN rt THEN c.units * rt[KeyOf(c)].expectedRate ELSE 0

\* One iteration of the forEach over the unpaid claims; st is the stats map
\* in insertion order.
DenialStep(st, c, rt) ==
    LET st1 == IF \E j \in DOMAIN st : st[j].payer = c.payer THEN st
               ELSE Append(st, [payer |-> c.payer, deniedUnits |-> 0,
                                deniedValue |-> 0, projectedValue |-> 0])
        j == CHOOSE n \in DOMAIN st1 : st1[n].payer = c.payer
    IN [st1 EXCEPT ![j] =
            [payer |-> @.payer,
             deniedUnits |-> @.deniedUnits + c.units,
             deniedValue |-> @.deniedValue + c.charge,
             projectedValue |-> @.projectedValue + ProjectedAdd(c, rt)]]

RECURSIVE DenialLoop(_, _, _)
DenialLoop(cs, rt, st) ==
    IF cs = <<>> THEN st
    ELSE DenialLoop(Tail(cs), rt, DenialStep(st, Head(cs), rt))

\* Array.from(stats.values())
calculateDenialOpportunity(cs, rt) == DenialLoop(SelectSeq(cs, IsDenied), rt, <<>>)

----------------------------------------------------------------------------
(* Inputs of the denial runs                                                *)

MaxDenialClaims == 3

\* (paid, units, charge): a paid line (rate 100), a denied line, and a denied
\* line with a payment of one cent.
DenialLines == {<<200, 2, 400>>, <<0, 3, 500>>, <<1, 1, 700>>}

DenialClaimPool ==
    {MkClaim(p, c, l[1], l[2], l[3], <<"A">>, <<>>) :
        p \in Payers, c \in Cpts, l \in DenialLines}

DenialInputs == {Reindex(s) : s \in SeqsUpTo(DenialClaimPool, MaxDenialClaims)}

----------------------------------------------------------------------------
(* Denial runs: App.tsx kpis = calculateDenialOpportunity(claims, rates)     *)

InitDenial ==
    /\ pc = "loaded"
    /\ claims \in DenialInputs
    /\ rates = <<>>
    /\ locals = <<>>
    /\ stats = <<>>
    /\ patients = <<>>
    /\ cursor = 0
    /\ NoParse
    /\ NoUpload
    /\ NoExport

CalcDenial ==
    /\ pc = "rated"
    /\ stats' = calculateDenialOpportunity(claims, rates)
    /\ pc' = "denial"
    /\ UNCHANGED <<claims, rates, locals, patients, cursor>>
    /\ UNCHANGED parseVars
    /\ UNCHANGED <<uploadVars, exportVars>>

NextDenial == CalcRates \/ CalcDenial

SpecDenial == InitDenial /\ [][NextDenial]_vars

----------------------------------------------------------------------------
(* analyzePatients                                                          *)

\* patients.set(c.patientId, {..., payer: c.payer}) when the id is new.
NewPatient(c) ==
    [patientId |-> c.patientId, patientName |-> c.patientName, totalVisits |-> 0,
     totalRevenue |-> 0, lastVisit |-> <<>>, payer |-> c.payer]

\* The payer of the running record after a claim of its patient.
PayerAfterOverwrite(p, c) == c.payer

PayerAfter(p, c) == p.payer

\* One iteration of the first forEach; ps is the patients map in insertion order.
PatientStep(ps, c) ==
    LET ps1 == IF \E j \in DOMAIN ps : ps[j].patientId = c.patientId THEN ps
               ELSE Append(ps, NewPatient(c))
        j == CHOOSE n \in DOMAIN ps1 : ps1[n].patientId = c.patientId
        p == ps1[j]
    IN [ps1 EXCEPT ![j] =
            [p EXCEPT !.payer = PayerAfter(p, c),
                      !.totalRevenue = @ + c.paid,
                      !.lastVisit = IF c.dos # <<>> /\ (@ = <<>> \/ c.dos[1] > @[1])
                                    THEN c.dos ELSE @]]

\* `${c.patientId}|${c.dos?.getTime()}`
TimeText(dos) == IF dos = <<>> THEN "undefined" ELSE ToString(dos[1])

VisitKey(c) == c.patientId \o <<"|">> \o <<TimeText(c.dos)>>

distinctVisits(cs) == {VisitKey(cs[i]) : i \in DOMAIN cs}

\* key.split('|')[0]: the text before the first '|'.
SplitFirst(key) ==
    LET bars == {i \in DOMAIN key : key[i] = "|"}
        first == CHOOSE i \in bars : \A j \in bars : i <= j
    IN SubSeq(key, 1, first - 1)

\* visitCounts[pid] || 0
visitCounts(cs, pid) == Cardinality({key \in distinctVisits(cs) : SplitFirst(key) = pid})

\* patients.forEach(p => p.totalVisits = visitCounts[p.patientId] || 0)
SetVisits(ps, cs) ==
    [j \in DOMAIN ps |-> [ps[j] EXCEPT !.totalVisits = visitCounts(cs, ps[j].patientId)]]

----------------------------------------------------------------------------
(* Inputs of the patient runs                                               *)

MaxPatientClaims == 3

PatientIds == {<<"A">>, <<"B">>, <<"A", "|", "B">>}

ServiceDates == {<<>>, <<1>>, <<2>>}

PatientClaimPool ==
    {MkClaim(p, "A1", 200, 1, 400, id, d) :
        p \in Payers, id \in PatientIds, d \in ServiceDates}

PatientInputs == {Reindex(s) : s \in SeqsUpTo(PatientClaimPool, MaxPatientClaims)}

----------------------------------------------------------------------------
(* Patient runs: PatientAnalytics.tsx patients = analyzePatients(claims)     *)

InitPatients ==
    /\ pc = "loaded"
    /\ claims \in PatientInputs
    /\ rates = <<>>
    /\ locals = <<>>
    /\ stats = <<>>
    /\ patients = <<>>
    /\ cursor = 0
    /\ NoParse
    /\ NoUpload
    /\ NoExport

\* claims.forEach(c => {...}): the next claim.
PatientsForEach ==
    /\ pc = "loaded"
    /\ cursor < Len(claims)
    /\ patients' = PatientStep(patients, claims[cursor + 1])
    /\ cursor' = cursor + 1
    /\ UNCHANGED <<pc, claims, rates, locals, stats>>
    /\ UNCHANGED parseVars
    /\ UNCHANGED <<uploadVars, exportVars>>

\* The visit count and the return.
PatientsReturn ==
    /\ pc = "loaded"
    /\ cursor = Len(claims)
    /\ patients' = SetVisits(patients, claims)
    /\ pc' = "patients"
    /\ UNCHANGED <<claims, rates, locals, stats, cursor>>
    /\ UNCHANGED parseVars
    /\ UNCHANGED <<uploadVars, exportVars>>

NextPatients == PatientsForEach \/ PatientsReturn

SpecPatients == InitPatients /\ [][NextPatients]_vars


----------------------------------------------------------------------------
(* Cells and JavaScript text helpers (parser.ts)                            *)

\* A cell of a row: a string (its characters), a number (spreadsheet cells
\* only; money in cents) or undefined (no such cell, or no such column).
Str(chars) == [t |-> "s", s |-> chars, n |-> 0]
Num(n) == [t |-> "n", s |-> <<>>, n |-> n]
Undefined == [t |-> "u", s |-> <<>>, n |-> 0]

\* JavaScript truthiness of a cell: "", 0 and undefined are falsy.
Truthy(cell) ==
    CASE cell.t = "s" -> cell.s # <<>>
      [] cell.t = "n" -> cell.n # 0
      [] OTHER -> FALSE

Digit == {"0", "1", "2", "3", "4", "5", "6", "7", "8", "9"}

DigitValue(c) ==
    CASE c = "0" -> 0 [] c = "1" -> 1 [] c = "2" -> 2 [] c = "3" -> 3
      [] c = "4" -> 4 [] c = "5" -> 5 [] c = "6" -> 6 [] c = "7" -> 7
      [] c = "8" -> 8 [] c = "9" -> 9

\* The whitespace characters of the inputs (\s, trim).
WhiteSpace == {" ", "\t", "\n", "\r"}

IsSpace(c) == c \in WhiteSpace

\* String.prototype.trim
RECURSIVE TrimLeft(_)
TrimLeft(s) == IF s # <<>> /\ IsSpace(Head(s)) THEN TrimLeft(Tail(s)) ELSE s

RECURSIVE TrimRight(_)
TrimRight(s) ==
    IF s # <<>> /\ IsSpace(s[Len(s)]) THEN TrimRight(SubSeq(s, 1, Len(s) - 1)) ELSE s

Trim(s) == TrimRight(TrimLeft(s))

\* String.prototype.toUpperCase
UpperChar(c) ==
    CASE c = "a" -> "A" [] c = "b" -> "B" [] c = "c" -> "C" [] c = "d" -> "D"
      [] c = "e" -> "E" [] c = "f" -> "F" [] c = "g" -> "G" [] c = "h" -> "H"
      [] c = "i" -> "I" [] c = "j" -> "J" [] c = "k" -> "K" [] c = "l" -> "L"
      [] c = "m" -> "M" [] c = "n" -> "N" [] c = "o" -> "O" [] c = "p" -> "P"
      [] c = "q" -> "Q" [] c = "r" -> "R" [] c = "s" -> "S" [] c = "t" -> "T"
      [] c = "u" -> "U" [] c = "v" -> "V" [] c = "w" -> "W" [] c = "x" -> "X"
      [] c = "y" -> "Y" [] c = "z" -> "Z"
      [] OTHER -> c

ToUpperCase(s) == [i \in DOMAIN s |-> UpperChar(s[i])]

\* The longest prefix of s made of digits.
RECURSIVE DigitPrefix(_)
DigitPrefix(s) ==
    IF s # <<>> /\ Head(s) \in Digit THEN <<Head(s)>> \o DigitPrefix(Tail(s)) ELSE <<>>

RECURSIVE IntOf(_)
IntOf(ds) ==
    IF ds = <<>> THEN 0 ELSE 10 * IntOf(SubSeq(ds, 1, Len(ds) - 1)) + DigitValue(ds[Len(ds)])

\* The fraction digits as hundredths (the inputs carry at most 2 of them).
Hundredths(fs) ==
    (IF Len(fs) >= 1 THEN 10 * DigitValue(fs[1]) ELSE 0)
        + (IF Len(fs) >= 2 THEN DigitValue(fs[2]) ELSE 0)

\* parseFloat of a text: leading whitespace, a sign, digits, a point and
\* digits; whatever follows is ignored; no digit at all is NaN. The value is
\* in hundredths. (Exponents and "Infinity" are not in the inputs.)
ParseFloat(s) ==
    LET t == TrimLeft(s)
        signed == t # <<>> /\ Head(t) \in {"-", "+"}
        u == IF signed THEN Tail(t) ELSE t
        ip == DigitPrefix(u)
        rest == SubSeq(u, Len(ip) + 1, Len(u))
        fp == IF rest # <<>> /\ Head(rest) = "." THEN DigitPrefix(Tail(rest)) ELSE <<>>
        mag == 100 * IntOf(ip) + Hundredths(fp)
    IN [nan |-> ip = <<>> /\ fp = <<>>,
        val |-> IF signed /\ Head(t) = "-" THEN 0 - mag ELSE mag]

\* s.replace(/[$,\s]/g, '')
StripMoney(s) == SelectSeq(s, LAMBDA c : c \notin {"$", ","} \cup WhiteSpace)

\* normalizeMoney, in cents.
normalizeMoney(cell) ==
    IF ~Truthy(cell) THEN 0
    ELSE IF cell.t = "n" THEN cell.n
    ELSE LET s == Trim(StripMoney(cell.s))
             t == IF s # <<>> /\ Head(s) = "(" /\ s[Len(s)] = ")"
                  THEN <<"-">> \o SubSeq(s, 2, Len(s) - 1) ELSE s
             f == ParseFloat(t)
         IN IF f.nan THEN 0 ELSE f.val

\* Math.abs
AbsKeepSign(x) == x

Abs(x) == IF x < 0 THEN 0 - x ELSE x

\* parseFloat(cell) || 0 for a unit count (whole units in the inputs).
UnitsOf(cell) ==
    CASE cell.t = "n" -> cell.n
      [] cell.t = "s" -> LET f == ParseFloat(cell.s)
                         IN IF f.nan THEN 0 ELSE f.val \div 100
      [] OTHER -> 0

\* String(cell).trim() of a string cell.
TextOf(cell) == IF cell.t = "s" THEN Trim(cell.s) ELSE <<>>

\* /\d{1,2}\/\d{1,2}\/\d{4}/.test(s): found anywhere in s.
AllDigits(s, from, n) ==
    /\ from >= 1 /\ from + n - 1 <= Len(s)
    /\ \A i \in from..(from + n - 1) : s[i] \in Digit

IsChar(s, i, c) == i \in DOMAIN s /\ s[i] = c

LooksLikeUSDate(s) ==
    \E i \in DOMAIN s : \E a, b \in {1, 2} :
        /\ AllDigits(s, i, a) /\ IsChar(s, i + a, "/")
        /\ AllDigits(s, i + a + 1, b) /\ IsChar(s, i + a + 1 + b, "/")
        /\ AllDigits(s, i + a + b + 2, 4)

\* /^\d{4}-\d{2}-\d{2}$/.test(s)
LooksLikeISODate(s) ==
    /\ Len(s) = 10
    /\ AllDigits(s, 1, 4) /\ IsChar(s, 5, "-")
    /\ AllDigits(s, 6, 2) /\ IsChar(s, 8, "-")
    /\ AllDigits(s, 9, 2)

\* The pieces of s between the occurrences of the character ch.
RECURSIVE SplitOn(_, _)
SplitOn(s, ch) ==
    IF \A i \in DOMAIN s : s[i] # ch THEN <<s>>
    ELSE LET i == CHOOSE j \in DOMAIN s : s[j] = ch /\ \A k \in 1..(j - 1) : s[k] # ch
         IN <<SubSeq(s, 1, i - 1)>> \o SplitOn(SubSeq(s, i + 1, Len(s)), ch)

IsDigits(s, lo, hi) == Len(s) \in lo..hi /\ \A i \in DOMAIN s : s[i] \in Digit

\* new Date(y, m - 1, d).getTime() in days since 1 January 1970, for a month
\* in 1..12 and a 4-digit year (local time taken as UTC; one day is
\* 86 400 000 ms).
EpochDay(y, m, d) ==
    LET yy == IF m <= 2 THEN y - 1 ELSE y
        era == yy \div 400
        yoe == yy - era * 400
        mp == IF m > 2 THEN m - 3 ELSE m + 9
        doy == (153 * mp + 2) \div 5 + d - 1
        doe == yoe * 365 + yoe \div 4 - yoe \div 100 + doy
    IN era * 146097 + doe - 719468

\* parseDOS of a string cell or of undefined: null is << >>, a Date is <<t>>.
\* The Date.parse fallback is NaN on the texts that reach it in the inputs
\* (texts that hold no date).
parseDOS(cell) ==
    IF ~Truthy(cell) THEN <<>>
    ELSE LET s == Trim(cell.s)
             iso == SplitOn(s, "-")
             mdy == SplitOn(s, "/")
         IN IF LooksLikeISODate(s)
            THEN <<EpochDay(IntOf(iso[1]), IntOf(iso[2]), IntOf(iso[3]))>>
            ELSE IF /\ Len(mdy) = 3
                    /\ IsDigits(mdy[1], 1, 2) /\ IsDigits(mdy[2], 1, 2)
                    /\ IsDigits(mdy[3], 2, 4)
            THEN LET y == IntOf(mdy[3])
                 IN <<EpochDay(IF y < 100 THEN y + 2000 ELSE y,
                               IntOf(mdy[1]), IntOf(mdy[2]))>>
            ELSE <<>>

\* dos ? dos.getTime() : 0
dateSort(dos) == IF dos # <<>> THEN dos[1] ELSE 0

----------------------------------------------------------------------------
(* The row loops of the parsers                                             *)

\* The claim a data row gives (the fields the analytics compute with; the
\* provider, payer, patient and date texts are set beside them).
ParsedClaim(id, cpt, units, charge, paid, dos) ==
    [id |-> id, cpt |-> ToUpperCase(cpt), units |-> units, charge |-> charge,
     paid |-> paid, isPaid |-> IsPaidAmount(paid), dos |-> dos,
     dateSort |-> dateSort(dos)]

\* parseClaimsData, one iteration of for (const row of dataRows): the claims
\* pushed (none when the row is skipped).
CsvRowClaims(r, id) ==
    IF ~Truthy(r.cpt) THEN <<>>
    ELSE IF Trim(r.cpt.s) = <<>> THEN <<>>
    ELSE <<ParsedClaim(id, Trim(r.cpt.s), UnitsOf(r.units), normalizeMoney(r.charge),
                       Abs(normalizeMoney(r.paid)), parseDOS(r.dos))>>

\* parseExcelReport, Applied Payments layout, one iteration over a row that
\* is not a 'provider name:' row, in a sheet whose header has the 'dos',
\* 'cpt' and 'applied payments' columns and no 'desc.' column: units 1,
\* charge 0.
PaymentRowClaims(r, id) ==
    IF \A f \in DOMAIN r : r[f] = Str(<<>>) THEN <<>>
    ELSE IF ~(Truthy(r.dos) /\ Truthy(r.cpt)) THEN <<>>
    ELSE <<ParsedClaim(id, TextOf(r.cpt), 1, 0, Abs(normalizeMoney(r.paid)),
                       parseDOS(r.dos))>>

\* parseExcelReport, Patient Visit layout, one iteration over a row that is
\* not a 'sub total', 'page:', 'patient:' or 'insurance:' row, in a sheet whose
\* header has the 'date of service', 'cpt', 'days or units', 'charges' and
\* 'insurance payment' columns.
VisitRowClaims(r, id) ==
    LET dateOfService == IF Truthy(r.dos) THEN TextOf(r.dos) ELSE <<>>
        cptCode == IF Truthy(r.cpt) THEN TextOf(r.cpt) ELSE <<>>
    IN IF \A f \in DOMAIN r : r[f] = Str(<<>>) THEN <<>>
       ELSE IF (LooksLikeUSDate(dateOfService) \/ LooksLikeISODate(dateOfService))
                /\ cptCode # <<>>
       THEN <<ParsedClaim(id, cptCode, UnitsOf(r.units), normalizeMoney(r.charge),
                          Abs(normalizeMoney(r.paid)), parseDOS(Str(dateOfService)))>>
       ELSE <<>>

RowClaims(kind, r, id) ==
    CASE kind = "csv" -> CsvRowClaims(r, id)
      [] kind = "payment" -> PaymentRowClaims(r, id)
      [] kind = "visit" -> VisitRowClaims(r, id)

\* The results joined last file first.
RECURSIVE ConcatReversed(_)
ConcatReversed(rs) == IF rs = <<>> THEN <<>> ELSE ConcatReversed(Tail(rs)) \o Head(rs)

\* combinedClaims = [...combinedClaims, ...fileClaims] over the results.
RECURSIVE Concat(_)
Concat(rs) == IF rs = <<>> THEN <<>> ELSE Head(rs) \o Concat(Tail(rs))

----------------------------------------------------------------------------
(* Inputs of the parse runs                                                 *)

MaxRows == 2

MaxFiles == 2

Layouts == {"csv", "payment", "visit"}

\* Money cells as typed in exports: empty, zero, one cent, two cents, a
\* negative amount, accounting parentheses, currency sign and comma, no
\* number at all, a sign inside parentheses.
MoneyTexts ==
    {<<>>, <<"0">>, <<".", "0", "1">>, <<".", "0", "2">>, <<"-", "3">>,
     <<"(", "5", ")">>, <<"$", "1", ",", "0">>, <<"a">>, <<"(", "-", "1", ")">>}

MoneyNumbers == {0 - 150, 0, 1, 250}

CptTexts == {<<>>, <<"a", "1">>}

DateTexts == {<<>>, <<"1", "/", "5", "/", "2", "0", "2", "4">>}

MkRow(dos, cpt, units, charge, paid) ==
    [dos |-> dos, cpt |-> cpt, units |-> units, charge |-> charge, paid |-> paid]

\* Delimited text: every cell is a string; a short row lacks its last cells.
CsvRows ==
    {MkRow(Str(<<"1", "/", "5", "/", "2", "0", "2", "4">>), Str(c), Str(<<"2">>),
           Str(<<"5">>), p) :
        c \in CptTexts, p \in {Str(m) : m \in MoneyTexts} \cup {Undefined}}

\* Spreadsheet rows: a money cell is a string or a number.
SheetRows ==
    {MkRow(Str(d), Str(c), Str(<<"2">>), Str(<<"5">>), p) :
        d \in DateTexts, c \in CptTexts,
        p \in {Str(m) : m \in MoneyTexts} \cup {Num(n) : n \in MoneyNumbers}}

\* A complete, ordinary row; the rows below differ from it in one cell.
PlainRow ==
    MkRow(Str(<<"1", "/", "5", "/", "2", "0", "2", "4">>), Str(<<"a", "1">>),
          Str(<<"2">>), Str(<<"5">>), Str(<<"7">>))

\* Procedure-code cells: blanks only, blanks around a code.
CptCells == {Str(<<" ">>), Str(<<" ", "q", "2", " ">>)}

\* Unit cells: a negative count, no number, empty.
UnitsCells == {Str(<<"-", "2">>), Str(<<"x">>), Str(<<>>)}

\* Charge cells: accounting parentheses, a minus sign, empty.
ChargeCells == {Str(<<"(", "5", ")">>), Str(<<"-", "3">>), Str(<<>>)}

\* Date cells: a date before 1970, an ISO date, a text that is no date.
DateCells ==
    {Str(<<"1", "/", "5", "/", "1", "9", "6", "5">>),
     Str(<<"2", "0", "2", "4", "-", "0", "1", "-", "0", "5">>),
     Str(<<"n", "/", "a">>)}

EdgeRows ==
    {[PlainRow EXCEPT !.cpt = c] : c \in CptCells}
        \cup {[PlainRow EXCEPT !.units = u] : u \in UnitsCells}
        \cup {[PlainRow EXCEPT !.charge = c] : c \in ChargeCells}
        \cup {[PlainRow EXCEPT !.dos = d] : d \in DateCells}

\* Cells only a delimited text has (a short row, an empty date) and cells
\* only a spreadsheet has (numbers).
CsvEdgeRows ==
    {[PlainRow EXCEPT !.units = Undefined, !.charge = Undefined, !.paid = Undefined],
     [PlainRow EXCEPT !.dos = Str(<<>>)]}

SheetEdgeRows ==
    {[PlainRow EXCEPT !.units = Num(0 - 2)], [PlainRow EXCEPT !.charge = Num(0 - 150)]}

RowsOf(kind) == IF kind = "csv" THEN CsvRows ELSE SheetRows

EdgeRowsOf(kind) ==
    {PlainRow} \cup EdgeRows \cup (IF kind = "csv" THEN CsvEdgeRows ELSE SheetEdgeRows)

----------------------------------------------------------------------------
(* Parse runs: processFiles parses the files of a batch and merges them     *)

InitParse ==
    /\ pc = "idle"
    /\ claims = <<>>
    /\ rates = <<>>
    /\ locals = <<>>
    /\ stats = <<>>
    /\ patients = <<>>
    /\ cursor = 0
    /\ layout = "none"
    /\ row = <<>>
    /\ nRows = 0
    /\ fileClaims = <<>>
    /\ idCounter = 1
    /\ results = <<>>
    /\ NoUpload
    /\ NoExport

\* A parser is called on the next file: claims = [], idCounter = 1.
StartParse ==
    /\ pc = "idle"
    /\ Len(results) < MaxFiles
    /\ layout' \in Layouts
    /\ fileClaims' = <<>>
    /\ idCounter' = 1
    /\ pc' = "parsing"
    /\ UNCHANGED <<claims, row, nRows, results>>
    /\ UNCHANGED analyticsVars
    /\ UNCHANGED <<uploadVars, exportVars>>

\* One iteration of the parser's row loop, over a row of the given set, in
\* a batch of at most max rows.
ParseRowFrom(rows, max) ==
    /\ pc = "parsing"
    /\ nRows < max
    /\ \E r \in rows :
        LET new == RowClaims(layout, r, idCounter)
        IN /\ row' = r
           /\ fileClaims' = fileClaims \o new
           /\ idCounter' = idCounter + Len(new)
    /\ nRows' = nRows + 1
    /\ UNCHANGED <<pc, claims, layout, results>>
    /\ UNCHANGED analyticsVars
    /\ UNCHANGED <<uploadVars, exportVars>>

ParseRow == ParseRowFrom(RowsOf(layout), MaxRows)

\* return claims: the call's array and counter go out of scope.
EndParse ==
    /\ pc = "parsing"
    /\ results' = Append(results, fileClaims)
    /\ pc' = "idle"
    /\ fileClaims' = <<>>
    /\ idCounter' = 1
    /\ UNCHANGED <<claims, layout, row, nRows>>
    /\ UNCHANGED analyticsVars
    /\ UNCHANGED <<uploadVars, exportVars>>

\* processFiles after Promise.all: merge, re-index, onDataLoaded (setClaims);
\* an empty batch sets the error instead.
MergeBatch ==
    /\ pc = "idle"
    /\ results # <<>>
    /\ IF Concat(results) = <<>>
       THEN pc' = "empty" /\ UNCHANGED claims
       ELSE pc' = "loaded" /\ claims' = Reindex(Concat(results))
    /\ UNCHANGED parseVars
    /\ UNCHANGED analyticsVars
    /\ UNCHANGED <<uploadVars, exportVars>>

NextParse == StartParse \/ ParseRow \/ EndParse \/ MergeBatch

SpecParse == InitParse /\ [][NextParse]_vars

\* The same runs over the rows that differ from an ordinary row in one cell.
ParseEdgeRow == ParseRowFrom(EdgeRowsOf(layout), MaxRows)

NextFields == StartParse \/ ParseEdgeRow \/ EndParse \/ MergeBatch

SpecFields == InitParse /\ [][NextFields]_vars

\* Longer batches over three rows: an ordinary row, a row without procedure
\* code (skipped by every parser) and a row without date (skipped by the
\* spreadsheet parsers).
MaxIdRows == 4

IdRows ==
    {PlainRow, [PlainRow EXCEPT !.cpt = Str(<<>>)], [PlainRow EXCEPT !.dos = Str(<<>>)]}

ParseIdRow == ParseRowFrom(IdRows, MaxIdRows)

NextIds == StartParse \/ ParseIdRow \/ EndParse \/ MergeBatch

SpecIds == InitParse /\ [][NextIds]_vars

----------------------------------------------------------------------------
(* Delimited text: parseCSVLine and parseClaimsData on the characters       *)

\* String.prototype.toLowerCase
LowerChar(c) ==
    CASE c = "A" -> "a" [] c = "B" -> "b" [] c = "C" -> "c" [] c = "D" -> "d"
      [] c = "E" -> "e" [] c = "F" -> "f" [] c = "G" -> "g" [] c = "H" -> "h"
      [] c = "I" -> "i" [] c = "J" -> "j" [] c = "K" -> "k" [] c = "L" -> "l"
      [] c = "M" -> "m" [] c = "N" -> "n" [] c = "O" -> "o" [] c = "P" -> "p"
      [] c = "Q" -> "q" [] c = "R" -> "r" [] c = "S" -> "s" [] c = "T" -> "t"
      [] c = "U" -> "u" [] c = "V" -> "v" [] c = "W" -> "w" [] c = "X" -> "x"
      [] c = "Y" -> "y" [] c = "Z" -> "z"
      [] OTHER -> c

ToLowerCase(s) == [i \in DOMAIN s |-> LowerChar(s[i])]

\* String.prototype.includes
Includes(s, sub) ==
    \E i \in 1..(Len(s) - Len(sub) + 1) : SubSeq(s, i, i + Len(sub) - 1) = sub

\* String.prototype.endsWith
EndsWith(s, suffix) ==
    Len(suffix) <= Len(s) /\ SubSeq(s, Len(s) - Len(suffix) + 1, Len(s)) = suffix

\* One iteration of for (let i = 0; i < text.length; i++) with every quote
\* taken as the end of the quoted region.
ScanStepNoEscape(text, st) ==
    LET c == text[st.i]
        next == [st EXCEPT !.i = st.i + 1]
    IN IF st.inQuotes
       THEN IF c = "\"" THEN [next EXCEPT !.inQuotes = FALSE]
            ELSE [next EXCEPT !.field = Append(st.field, c)]
       ELSE IF c = "\"" THEN [next EXCEPT !.inQuotes = TRUE]
            ELSE IF c = st.delim
            THEN [next EXCEPT !.row = Append(st.row, st.field), !.field = <<>>]
            ELSE IF c = "\n"
            THEN [next EXCEPT !.rows = Append(st.rows, Append(st.row, st.field)),
                              !.row = <<>>, !.field = <<>>]
            ELSE IF c # "\r" THEN [next EXCEPT !.field = Append(st.field, c)]
            ELSE next

\* One iteration of for (let i = 0; i < text.length; i++): st holds i (from
\* 1), delim, field, row, rows and inQuotes.
ScanStep(text, st) ==
    LET c == text[st.i]
        next == [st EXCEPT !.i = st.i + 1]
    IN IF st.inQuotes
       THEN IF c = "\""
            THEN IF st.i + 1 <= Len(text) /\ text[st.i + 1] = "\""
                 THEN [st EXCEPT !.i = st.i + 2, !.field = Append(st.field, "\"")]
                 ELSE [next EXCEPT !.inQuotes = FALSE]
            ELSE [next EXCEPT !.field = Append(st.field, c)]
       ELSE IF c = "\"" THEN [next EXCEPT !.inQuotes = TRUE]
            ELSE IF c = st.delim
            THEN [next EXCEPT !.row = Append(st.row, st.field), !.field = <<>>]
            ELSE IF c = "\n"
            THEN [next EXCEPT !.rows = Append(st.rows, Append(st.row, st.field)),
                              !.row = <<>>, !.field = <<>>]
            ELSE IF c # "\r" THEN [next EXCEPT !.field = Append(st.field, c)]
            ELSE next

\* if (field.length || row.length) { row.push(field); rows.push(row) }
ScanResult(st) ==
    IF st.field # <<>> \/ st.row # <<>> THEN Append(st.rows, Append(st.row, st.field))
    ELSE st.rows

\* The for loop of parseCSVLine run for n iterations from the locals st, or
\* to the end of the text when that comes first.
RECURSIVE ScanLoop(_, _, _)
ScanLoop(text, st, n) ==
    IF n = 0 \/ st.i > Len(text) THEN st
    ELSE IF n = 1 THEN ScanStep(text, st)
    ELSE ScanLoop(text, ScanLoop(text, st, n \div 2), n - n \div 2)

parseCSVLine(text, delim) ==
    ScanResult(ScanLoop(text, [NoScan EXCEPT !.i = 1, !.delim = delim], Len(text)))

\* detectDelimiter: a tab when the first line that is not blank holds one.
detectDelimiter(text) ==
    LET lines == SplitOn(text, "\n")
        filled == {i \in DOMAIN lines : Trim(lines[i]) # <<>>}
        firstLine == IF filled = {} THEN <<>>
                     ELSE lines[CHOOSE i \in filled : \A j \in filled : i <= j]
    IN IF Includes(firstLine, <<"\t">>) THEN "\t" ELSE ","

\* Array.prototype.indexOf, positions counted from 1: 0 stands for -1.
IndexOf(s, x) ==
    IF \E i \in DOMAIN s : s[i] = x
    THEN CHOOSE i \in DOMAIN s : s[i] = x /\ \A j \in 1..(i - 1) : s[j] # x
    ELSE 0

\* findIdx: the position of the first candidate the header holds.
RECURSIVE findIdx(_, _)
findIdx(header, candidates) ==
    IF candidates = <<>> THEN 0
    ELSE IF IndexOf(header, Head(candidates)) # 0 THEN IndexOf(header, Head(candidates))
    ELSE findIdx(header, Tail(candidates))

CptHeaders ==
    <<<<"c", "p", "t">>,
      <<"p", "r", "o", "c", "e", "d", "u", "r", "e", " ", "c", "o", "d", "e">>,
      <<"p", "r", "o", "c", " ", "c", "o", "d", "e">>>>

UnitsHeaders ==
    <<<<"d", "a", "y", "s", "_", "o", "r", "_", "u", "n", "i", "t", "s">>,
      <<"u", "n", "i", "t", "s">>,
      <<"d", "a", "y", "s">>,
      <<"q", "t", "y">>>>

ChargesHeaders ==
    <<<<"c", "h", "a", "r", "g", "e", "s">>,
      <<"c", "h", "a", "r", "g", "e">>,
      <<"b", "i", "l", "l", "e", "d">>>>

PaidHeaders ==
    <<<<"i", "n", "s", "u", "r", "a", "n", "c", "e", "_", "p", "a", "y", "m", "e", "n", "t">>,
      <<"p", "a", "i", "d">>,
      <<"p", "a", "y", "m", "e", "n", "t">>,
      <<"i", "n", "s", " ", "p", "a", "i", "d">>>>

DosHeaders ==
    <<<<"d", "a", "t", "e", "_", "o", "f", "_", "s", "e", "r", "v", "i", "c", "e">>,
      <<"d", "o", "s">>,
      <<"d", "a", "t", "e">>,
      <<"s", "e", "r", "v", "i", "c", "e", " ", "d", "a", "t", "e">>>>

\* row[i]: undefined beyond the row's end and for i = -1.
CsvCell(cells, i) == IF i \in DOMAIN cells THEN Str(cells[i]) ELSE Undefined

\* What a call gives: the claims it returns, or the message of the Error it
\* throws.
Returned(cs) == [threw |-> FALSE, claims |-> cs, message |-> NoMessage]

Thrown(msg) == [threw |-> TRUE, claims |-> <<>>, message |-> msg]

CptColumnMessage ==
    [text |-> <<"Could not find a 'CPT' column header in CSV.">>, name |-> <<>>]

\* parseClaimsData: for (const row of dataRows) from the row at position k on,
\* with idCounter = id.
PatientIdHeaders ==
    <<<<"p", "a", "t", "i", "e", "n", "t", "_", "i", "d">>,
      <<"i", "d">>,
      <<"m", "r", "n">>,
      <<"a", "c", "c", "o", "u", "n", "t", " ", "n", "u", "m", "b", "e", "r">>>>

PatientNameHeaders ==
    <<<<"p", "a", "t", "i", "e", "n", "t", "_", "n", "a", "m", "e">>,
      <<"p", "a", "t", "i", "e", "n", "t">>,
      <<"n", "a", "m", "e">>,
      <<"p", "a", "t", "i", "e", "n", "t", " ", "n", "a", "m", "e">>>>

PayerHeaders ==
    <<<<"i", "n", "s", "u", "r", "a", "n", "c", "e", " ", "p", "r", "o", "v", "i", "d", "e", "r">>,
      <<"p", "a", "y", "e", "r">>,
      <<"i", "n", "s", "u", "r", "a", "n", "c", "e">>,
      <<"p", "l", "a", "n">>,
      <<"i", "n", "s", "u", "r", "a", "n", "c", "e", "_", "n", "a", "m", "e">>>>

ProviderHeaders ==
    <<<<"p", "r", "o", "v", "i", "d", "e", "r">>,
      <<"r", "e", "n", "d", "e", "r", "i", "n", "g", " ", "p", "r", "o", "v", "i", "d", "e", "r">>,
      <<"r", "e", "n", "d", "e", "r", "i", "n", "g", "_", "p", "r", "o", "v", "i", "d", "e", "r">>,
      <<"a", "t", "t", "e", "n", "d", "i", "n", "g">>>>

UnknownProvider == <<"U", "n", "k", "n", "o", "w", "n", " ", "P", "r", "o", "v", "i", "d", "e", "r">>

UnknownPayer == <<"U", "n", "k", "n", "o", "w", "n", " ", "P", "a", "y", "e", "r">>

UnknownId == <<"U", "n", "k", "n", "o", "w", "n", " ", "I", "D">>

UnknownPatient == <<"U", "n", "k", "n", "o", "w", "n", " ", "P", "a", "t", "i", "e", "n", "t">>

\* a || b on strings: the empty string (and undefined, written << >>) is
\* falsy.
OrElse(a, b) == IF a # <<>> THEN a ELSE b

\* (i !== -1 ? row[i] : ''), with undefined written << >>.
CsvText(cells, i) == IF i \in DOMAIN cells THEN cells[i] ELSE <<>>

normalizePayerName(raw) ==
    IF raw = <<>> THEN UnknownPayer
    ELSE LET upper == Trim(ToUpperCase(raw))
         IN IF \/ Includes(upper, <<"U", "N", "I", "T", "E", "D", " ", "H", "E", "A", "L", "T", "H">>)
               \/ Includes(upper, <<"U", "N", "I", "T", "E", "D", "H", "E", "A", "L", "T", "H">>)
               \/ Includes(upper, <<"U", "H", "C">>)
               \/ upper = <<"U", "N", "I", "T", "E", "D">>
            THEN <<"U", "n", "i", "t", "e", "d", "H", "e", "a", "l", "t", "h", "c", "a", "r", "e">>
            ELSE Trim(raw)

\* The provider, payer and patient fields of claims.push({...}), set beside
\* the fields of ParsedClaim.
WithParties(cs, provider, payer, patientId, patientName) ==
    [i \in DOMAIN cs |->
        [id |-> cs[i].id, cpt |-> cs[i].cpt, units |-> cs[i].units,
         charge |-> cs[i].charge, paid |-> cs[i].paid, isPaid |-> cs[i].isPaid,
         dos |-> cs[i].dos, dateSort |-> cs[i].dateSort,
         provider |-> provider, payer |-> payer,
         patientId |-> patientId, patientName |-> patientName]]

RECURSIVE CsvLoop(_, _, _, _, _)
CsvLoop(dataRows, col, k, id, fallbackProvider) ==
    IF k > Len(dataRows) THEN <<>>
    ELSE LET cells == dataRows[k]
             r == MkRow(IF col.dos # 0 THEN CsvCell(cells, col.dos) ELSE Undefined,
                        CsvCell(cells, col.cpt), CsvCell(cells, col.units),
                        CsvCell(cells, col.charge), CsvCell(cells, col.paid))
             provider == OrElse(CsvText(cells, col.provider),
                                OrElse(fallbackProvider, UnknownProvider))
             rawPayer == OrElse(CsvText(cells, col.payer), UnknownPayer)
             patientId == OrElse(CsvText(cells, col.patientId), UnknownId)
             patientName == OrElse(CsvText(cells, col.patientName), UnknownPatient)
             new == WithParties(CsvRowClaims(r, id), provider, normalizePayerName(rawPayer),
                                patientId, patientName)
         IN new \o CsvLoop(dataRows, col, k + 1, id + Len(new), fallbackProvider)

parseClaimsData(text, fallbackProvider) ==
    LET rawRows == parseCSVLine(text, detectDelimiter(text))
    IN IF Len(rawRows) < 2 THEN Returned(<<>>)
       ELSE LET header == [i \in DOMAIN rawRows[1] |-> Trim(ToLowerCase(rawRows[1][i]))]
                col == [cpt |-> findIdx(header, CptHeaders),
                        units |-> findIdx(header, UnitsHeaders),
                        charge |-> findIdx(header, ChargesHeaders),
                        paid |-> findIdx(header, PaidHeaders),
                        dos |-> findIdx(header, DosHeaders),
                        patientId |-> findIdx(header, PatientIdHeaders),
                        patientName |-> findIdx(header, PatientNameHeaders),
                        payer |-> findIdx(header, PayerHeaders),
                        provider |-> findIdx(header, ProviderHeaders)]
            IN IF col.cpt = 0 THEN Thrown(CptColumnMessage)
               ELSE Returned(CsvLoop(Tail(rawRows), col, 1, 1, fallbackProvider))

----------------------------------------------------------------------------
(* Spreadsheet reports: parseExcelReport on the rows of the first sheet     *)

\* String.prototype.startsWith
StartsWith(s, prefix) == Len(prefix) <= Len(s) /\ SubSeq(s, 1, Len(prefix)) = prefix

\* row[i] of a sheet row: undefined beyond the row's end and for an
\* undefined index (0 stands for undefined).
SheetCell(cells, i) == IF i \in DOMAIN cells THEN cells[i] ELSE Undefined

\* The text of a string cell, lowercased (a number cell holds no letters).
LowerText(cell) == IF cell.t = "s" THEN ToLowerCase(cell.s) ELSE <<>>

\* row.join(' ').toLowerCase(), as far as its letters go.
RECURSIVE RowText(_)
RowText(cells) ==
    IF cells = <<>> THEN <<>>
    ELSE IF Len(cells) = 1 THEN LowerText(cells[1])
    ELSE LowerText(Head(cells)) \o <<" ">> \o RowText(Tail(cells))

IsDosHeader(cell) ==
    /\ cell.t = "s"
    /\ Trim(ToLowerCase(cell.s)) \in {<<"d", "a", "t", "e", " ", "o", "f", " ", "s", "e", "r", "v", "i", "c", "e">>,
                                      <<"d", "o", "s">>}

\* rows.findIndex(row => row.some(...)): 0 stands for -1.
headerRowIndex(sheet) ==
    LET found == {k \in DOMAIN sheet : \E i \in DOMAIN sheet[k] : IsDosHeader(sheet[k][i])}
    IN IF found = {} THEN 0 ELSE CHOOSE k \in found : \A j \in found : k <= j

\* headerMap[key]: the last column whose trimmed, lowercased text is key; 0
\* stands for undefined.
headerMap(headerRow, key) ==
    LET found == {i \in DOMAIN headerRow :
                    /\ headerRow[i].t = "s"
                    /\ Trim(headerRow[i].s) # <<>>
                    /\ ToLowerCase(Trim(headerRow[i].s)) = key}
    IN IF found = {} THEN 0 ELSE CHOOSE i \in found : \A j \in found : j <= i

DosHeaderMessage ==
    [text |-> <<"Could not find 'Date of Service' or 'DOS' header in Excel file.">>,
     name |-> <<>>]

\* One decimal digit as a character.
DigitChar(d) ==
    CASE d = 0 -> "0" [] d = 1 -> "1" [] d = 2 -> "2" [] d = 3 -> "3" [] d = 4 -> "4"
      [] d = 5 -> "5" [] d = 6 -> "6" [] d = 7 -> "7" [] d = 8 -> "8" [] OTHER -> "9"

\* The decimal digits of a natural number.
RECURSIVE NatText(_)
NatText(n) == IF n < 10 THEN <<DigitChar(n)>> ELSE NatText(n \div 10) \o <<DigitChar(n % 10)>>

\* Number.prototype.toFixed(2) of an amount held in cents.
ToFixed2(cents) ==
    LET mag == Abs(cents)
    IN (IF cents < 0 THEN <<"-">> ELSE <<>>) \o NatText(mag \div 100) \o <<".">>
       \o <<DigitChar((mag % 100) \div 10), DigitChar(mag % 10)>>

\* String(x) of a number held in hundredths: no trailing zeros.
NumberText(h) ==
    LET mag == Abs(h)
        frac == IF mag % 100 = 0 THEN <<>>
                ELSE IF mag % 10 = 0 THEN <<".", DigitChar((mag % 100) \div 10)>>
                ELSE <<".", DigitChar((mag % 100) \div 10), DigitChar(mag % 10)>>
    IN (IF h < 0 THEN <<"-">> ELSE <<>>) \o NatText(mag \div 100) \o frac

\* String(cell)
StringOf(cell) ==
    CASE cell.t = "s" -> cell.s
      [] cell.t = "n" -> NumberText(cell.n)
      [] OTHER -> <<"u", "n", "d", "e", "f", "i", "n", "e", "d">>

\* s.replace(new RegExp(key, 'i'), ''): the first occurrence of key, letters
\* compared without case, is removed (key holds no pattern characters).
RemoveFirst(s, key) ==
    LET low == ToLowerCase(s)
        k == ToLowerCase(key)
        at == {i \in 1..(Len(s) - Len(k) + 1) : SubSeq(low, i, i + Len(k) - 1) = k}
    IN IF at = {} \/ k = <<>> THEN s
       ELSE LET i == CHOOSE i \in at : \A j \in at : i <= j
            IN SubSeq(s, 1, i - 1) \o SubSeq(s, i + Len(k), Len(s))

\* row.find / row.findIndex over the string cells whose lowercased text
\* includes key: the first such position, 0 for none.
FindCell(cells, key) ==
    LET found == {i \in DOMAIN cells : cells[i].t = "s" /\ Includes(ToLowerCase(cells[i].s), key)}
    IN IF found = {} THEN 0 ELSE CHOOSE i \in found : \A j \in found : i <= j

ProviderNameLabel == <<"p", "r", "o", "v", "i", "d", "e", "r", " ", "n", "a", "m", "e", ":">>

\* The provider context after a row, were a 'provider name:' row to replace
\* it by the text beside the label even when that text is empty.
PaymentProviderOverwrite(cells, currentProvider) ==
    IF (\A i \in DOMAIN cells : cells[i] = Str(<<>>))
        \/ ~Includes(RowText(cells), ProviderNameLabel)
    THEN currentProvider
    ELSE LET c == FindCell(cells, ProviderNameLabel)
         IN IF c = 0 THEN currentProvider
            ELSE Trim(RemoveFirst(cells[c].s, ProviderNameLabel))

\* The provider context after a row: a 'provider name:' row replaces it by
\* the text beside the label unless that text is empty.
PaymentProvider(cells, currentProvider) ==
    IF (\A i \in DOMAIN cells : cells[i] = Str(<<>>))
        \/ ~Includes(RowText(cells), ProviderNameLabel)
    THEN currentProvider
    ELSE LET c == FindCell(cells, ProviderNameLabel)
         IN IF c = 0 THEN currentProvider
            ELSE OrElse(Trim(RemoveFirst(cells[c].s, ProviderNameLabel)), currentProvider)

\* Applied Payments layout: the loop from the row at position k on.
RECURSIVE PaymentLoop(_, _, _, _, _)
PaymentLoop(sheet, h, k, id, currentProvider) ==
    IF k > Len(sheet) THEN <<>>
    ELSE LET cells == sheet[k]
             iDos == headerMap(h, <<"d", "o", "s">>)
             iCpt == headerMap(h, <<"c", "p", "t">>)
             iDesc == headerMap(h, <<"d", "e", "s", "c", ".">>)
             iName == headerMap(h, <<"p", "a", "t", "i", "e", "n", "t", " ", "n", "a", "m", "e">>)
             iId == headerMap(h, <<"p", "a", "t", "i", "e", "n", "t", " ", "i", "d">>)
             iPayer == headerMap(h, <<"p", "a", "y", "e", "r">>)
             r == MkRow(SheetCell(cells, iDos), SheetCell(cells, iCpt), Undefined, Undefined,
                        SheetCell(cells, headerMap(h, <<"a", "p", "p", "l", "i", "e", "d", " ", "p", "a", "y", "m", "e", "n", "t", "s">>)))
             patName == IF iName # 0 THEN StringOf(SheetCell(cells, iName)) ELSE <<"U", "n", "k", "n", "o", "w", "n">>
             patId == IF iId # 0 THEN StringOf(SheetCell(cells, iId)) ELSE <<"U", "n", "k", "n", "o", "w", "n">>
             payer == IF iPayer # 0 THEN normalizePayerName(StringOf(SheetCell(cells, iPayer)))
                      ELSE UnknownPayer
             new == IF \A i \in DOMAIN cells : cells[i] = Str(<<>>) THEN <<>>
                    ELSE IF Includes(RowText(cells), ProviderNameLabel)
                    THEN <<>>
                    ELSE IF /\ Truthy(r.dos) /\ Truthy(r.cpt)
                            /\ iDesc # 0
                            /\ Includes(ToLowerCase(StringOf(SheetCell(cells, iDesc))), <<"a", "d", "j">>)
                    THEN <<>>
                    ELSE WithParties(PaymentRowClaims(r, id),
                                     OrElse(currentProvider, UnknownProvider),
                                     payer, patId, patName)
         IN new \o PaymentLoop(sheet, h, k + 1, id + Len(new),
                               PaymentProvider(cells, currentProvider))

\* currentPatientInfo = {}: no field is set (<< >> stands for undefined).
NoPatientInfo == [Patient_Name |-> <<>>, Patient_ID |-> <<>>, Insurance |-> <<>>, Provider |-> <<>>]

\* The first cell after position i that is not "", as String(cell).trim();
\* '' when there is none.
RECURSIVE NextValue(_, _)
NextValue(cells, i) ==
    IF i > Len(cells) THEN <<>>
    ELSE IF cells[i] # Str(<<>>) /\ cells[i].t # "u" THEN Trim(StringOf(cells[i]))
    ELSE NextValue(cells, i + 1)

findValueByKeyword(cells, keyword) ==
    LET keywordLower == RemoveFirst(ToLowerCase(keyword), <<":">>)
        cellIndex == FindCell(cells, keywordLower)
    IN IF cellIndex = 0 THEN <<>>
       ELSE LET potentialValue ==
                    Trim(RemoveFirst(RemoveFirst(cells[cellIndex].s, keyword), <<":">>))
            IN IF potentialValue # <<>> THEN potentialValue
               ELSE NextValue(cells, cellIndex + 1)

IsSkippedVisitRow(cells) ==
    \/ \A i \in DOMAIN cells : cells[i] = Str(<<>>)
    \/ Includes(RowText(cells), <<"s", "u", "b", " ", "t", "o", "t", "a", "l">>)
    \/ Includes(RowText(cells), <<"p", "a", "g", "e", ":">>)

IsPatientRow(cells) ==
    /\ ~IsSkippedVisitRow(cells)
    /\ \E i \in DOMAIN cells : StartsWith(LowerText(cells[i]), <<"p", "a", "t", "i", "e", "n", "t", ":">>)

IsInsuranceRow(cells) ==
    /\ ~IsSkippedVisitRow(cells)
    /\ ~IsPatientRow(cells)
    /\ \E i \in DOMAIN cells : StartsWith(LowerText(cells[i]), <<"i", "n", "s", "u", "r", "a", "n", "c", "e", ":">>)

\* currentPatientInfo after a row.
VisitInfo(cells, info) ==
    IF IsPatientRow(cells)
    THEN [NoPatientInfo EXCEPT !.Patient_Name = findValueByKeyword(cells, <<"P", "a", "t", "i", "e", "n", "t", ":">>),
                               !.Patient_ID = findValueByKeyword(cells, <<"P", "a", "t", "i", "e", "n", "t", " ", "I", "D", ":">>)]
    ELSE IF IsInsuranceRow(cells)
    THEN [info EXCEPT !.Insurance = findValueByKeyword(cells, <<"I", "n", "s", "u", "r", "a", "n", "c", "e", ":">>),
                      !.Provider = findValueByKeyword(cells, <<"P", "r", "o", "v", "i", "d", "e", "r", ":">>)]
    ELSE info

\* Patient Visit layout: the loop from the row at position k on.
RECURSIVE VisitLoop(_, _, _, _, _, _)
VisitLoop(sheet, h, k, id, info, fallbackProvider) ==
    IF k > Len(sheet) THEN <<>>
    ELSE LET cells == sheet[k]
             r == MkRow(SheetCell(cells, headerMap(h, <<"d", "a", "t", "e", " ", "o", "f", " ", "s", "e", "r", "v", "i", "c", "e">>)),
                        SheetCell(cells, headerMap(h, <<"c", "p", "t">>)),
                        SheetCell(cells, headerMap(h, <<"d", "a", "y", "s", " ", "o", "r", " ", "u", "n", "i", "t", "s">>)),
                        SheetCell(cells, headerMap(h, <<"c", "h", "a", "r", "g", "e", "s">>)),
                        SheetCell(cells, headerMap(h, <<"i", "n", "s", "u", "r", "a", "n", "c", "e", " ", "p", "a", "y", "m", "e", "n", "t">>)))
             new == IF IsSkippedVisitRow(cells) \/ IsPatientRow(cells) \/ IsInsuranceRow(cells)
                    THEN <<>>
                    ELSE WithParties(VisitRowClaims(r, id),
                                     OrElse(info.Provider, OrElse(fallbackProvider, UnknownProvider)),
                                     normalizePayerName(OrElse(info.Insurance, UnknownPayer)),
                                     OrElse(info.Patient_ID, UnknownId),
                                     OrElse(info.Patient_Name, UnknownPatient))
         IN new \o VisitLoop(sheet, h, k + 1, id + Len(new), VisitInfo(cells, info),
                             fallbackProvider)

parseExcelReport(sheet, fallbackProvider) ==
    LET hi == headerRowIndex(sheet)
    IN IF hi = 0 THEN Thrown(DosHeaderMessage)
       ELSE IF headerMap(sheet[hi], <<"a", "p", "p", "l", "i", "e", "d", " ", "p", "a", "y", "m", "e", "n", "t", "s">>) # 0
       THEN Returned(PaymentLoop(sheet, sheet[hi], hi + 1, 1, fallbackProvider))
       ELSE Returned(VisitLoop(sheet, sheet[hi], hi + 1, 1, NoPatientInfo, fallbackProvider))

----------------------------------------------------------------------------
(* processFiles (UploadScreen): the files of a batch are read concurrently  *)

\* A dropped file: its name, its text (file.text()) and the rows of its
\* first sheet (XLSX.utils.sheet_to_json).
File(name, text, sheet) == [name |-> name, text |-> text, sheet |-> sheet]

IsSheetName(name) ==
    LET n == ToLowerCase(name)
    IN EndsWith(n, <<".", "x", "l", "s">>) \/ EndsWith(n, <<".", "x", "l", "s", "x">>)

IsTextName(name) ==
    LET n == ToLowerCase(name)
    IN \/ EndsWith(n, <<".", "c", "s", "v">>) \/ EndsWith(n, <<".", "t", "s", "v">>)
       \/ EndsWith(n, <<".", "t", "x", "t">>)

UnsupportedMessage(f) == [text |-> <<"Unsupported file type: ">>, name |-> f.name]

LimitMessage ==
    [text |-> <<"Maximum limit reached. Please upload up to 12 files at a time.">>,
     name |-> <<>>]

NoValidDataAsFailure == [text |-> <<"Failed to process files: ">>, name |-> <<>>]

NoValidDataMessage ==
    [text |-> <<"No valid claims data found in the uploaded files. Please check the file formats.">>,
     name |-> <<>>]

\* 'Failed to process files: ' + err.message
FailedMessage(reason) ==
    [text |-> <<"Failed to process files: ">> \o reason.text, name |-> reason.name]

\* The async callback of fileArray.map up to its first await: an unsupported
\* name throws at once, the other files wait for their read.
StartFile(f) ==
    IF IsSheetName(f.name) \/ IsTextName(f.name) THEN Pending
    ELSE Rejected(UnsupportedMessage(f))

\* The callback after its await: the parser the name selects.
ParseFile(f, fallbackProvider) ==
    IF IsSheetName(f.name) THEN parseExcelReport(f.sheet, fallbackProvider)
    ELSE parseClaimsData(f.text, fallbackProvider)

\* Promise.all after the promises ps have changed, from its state all: it
\* rejects with the first rejection and fulfils, with the values in file
\* order, when every promise is fulfilled.
AllAfterSettled(all, ps, changed) ==
    IF all.state # "pending" THEN all
    ELSE IF \A i \in DOMAIN ps : ps[i].state # "pending"
    THEN Fulfilled([i \in DOMAIN ps |-> ps[i].result])
    ELSE all

AllAfter(all, ps, changed) ==
    IF all.state # "pending" THEN all
    ELSE IF changed # 0 /\ ps[changed].state = "rejected" THEN Rejected(ps[changed].reason)
    ELSE IF \E i \in DOMAIN ps : ps[i].state = "rejected"
    THEN Rejected(ps[CHOOSE i \in DOMAIN ps :
                        /\ ps[i].state = "rejected"
                        /\ \A j \in 1..(i - 1) : ps[j].state # "rejected"].reason)
    ELSE IF \A i \in DOMAIN ps : ps[i].state = "fulfilled"
    THEN Fulfilled([i \in DOMAIN ps |-> ps[i].result])
    ELSE all

FileLimit == 12

MaxBatchFiles == 2

HeaderLines == {<<"c", "p", "t", ",", "p", "a", "i", "d">>, <<" ", "C", "P", "T", " ", ",", "P", "a", "i", "d">>,
                <<"c", "o", "d", "e", ",", "p", "a", "i", "d">>}

\* Nothing after the header; one row; a row without code, then a short row.
BodyLines == {<<>>, <<"\n", "a", "1", ",", "7">>, <<"\n", ",", "5", "\n", "q", "2">>}

TextFiles ==
    {File(<<"a", ".", "c", "s", "v">>, h \o b, <<>>) : h \in HeaderLines, b \in BodyLines}
        \cup {File(<<"b", ".", "T", "X", "T">>, <<"c", "p", "t", ",", "p", "a", "i", "d", "\n", "a", "1", ",", "7">>, <<>>),
              File(<<"c", ".", "t", "s", "v">>, <<"p", "r", "o", "c", " ", "c", "o", "d", "e", "\t", "p", "a", "i", "d", "\r", "\n", "q", "2", "\t", "(", "5", ")", "\r", "\n">>, <<>>)}

VisitHeader ==
    <<Str(<<"D", "a", "t", "e", " ", "o", "f", " ", "S", "e", "r", "v", "i", "c", "e">>), Str(<<"C", "P", "T">>), Str(<<"D", "a", "y", "s", " ", "o", "r", " ", "U", "n", "i", "t", "s">>),
      Str(<<"C", "h", "a", "r", "g", "e", "s">>), Str(<<"I", "n", "s", "u", "r", "a", "n", "c", "e", " ", "P", "a", "y", "m", "e", "n", "t">>)>>

VisitDataRow ==
    <<Str(<<"1", "/", "5", "/", "2", "0", "2", "4">>), Str(<<"a", "1">>), Num(2), Num(500), Str(<<"7">>)>>

PaymentDataRow ==
    <<Str(<<"1", "/", "5", "/", "2", "0", "2", "4">>), Str(<<"a", "1">>), Num(0 - 150)>>

SheetFiles ==
    {File(<<"f", ".", "x", "l", "s", "x">>, <<>>, <<VisitHeader, VisitDataRow>>),
     File(<<"f", ".", "x", "l", "s", "x">>, <<>>, <<VisitHeader>>),
     File(<<"g", ".", "X", "L", "S">>, <<>>,
          <<<<Str(<<"D", "O", "S">>), Str(<<"C", "P", "T">>), Str(<<"A", "p", "p", "l", "i", "e", "d", " ", "P", "a", "y", "m", "e", "n", "t", "s">>)>>,
            PaymentDataRow>>),
     File(<<"g", ".", "X", "L", "S">>, <<>>,
          <<<<Str(<<"D", "a", "t", "e", " ", "o", "f", " ", "S", "e", "r", "v", "i", "c", "e">>), Str(<<"C", "P", "T">>), Str(<<"A", "p", "p", "l", "i", "e", "d", " ", "P", "a", "y", "m", "e", "n", "t", "s">>)>>,
            PaymentDataRow>>),
     File(<<"h", ".", "x", "l", "s", "x">>, <<>>,
          <<<<Str(<<"P", "a", "t", "i", "e", "n", "t">>), Str(<<"C", "P", "T">>)>>,
            <<Str(<<"x">>), Str(<<"a", "1">>)>>>>)}

OtherFiles == {File(<<"e", ".", "p", "d", "f">>, <<>>, <<>>)}

FilePool == TextFiles \cup SheetFiles \cup OtherFiles

Batches == SeqsUpTo(FilePool, MaxBatchFiles)

InitUpload ==
    /\ pc = "ready"
    /\ claims = <<>>
    /\ rates = <<>>
    /\ locals = <<>>
    /\ stats = <<>>
    /\ patients = <<>>
    /\ cursor = 0
    /\ NoParse
    /\ files \in Batches
    /\ promises = <<>>
    /\ allPromise = Pending
    /\ error \in {NoMessage, NoValidDataMessage}
    /\ isProcessing = FALSE
    /\ delivered = <<>>
    /\ providerName = <<>>
    /\ completed = <<>>
    /\ runs = <<>>
    /\ NoExport

\* processFiles up to await Promise.all(processingPromises).
ProcessFiles ==
    /\ pc = "ready"
    /\ IF Len(files) = 0
       THEN /\ pc' = "done"
            /\ UNCHANGED <<promises, allPromise, error, isProcessing>>
       ELSE IF Len(files) > FileLimit
       THEN /\ error' = LimitMessage
            /\ pc' = "done"
            /\ UNCHANGED <<promises, allPromise, isProcessing>>
       ELSE /\ error' = NoMessage
            /\ isProcessing' = TRUE
            /\ promises' = [i \in DOMAIN files |-> StartFile(files[i])]
            /\ allPromise' = AllAfter(Pending, promises', 0)
            /\ pc' = "awaiting"
    /\ UNCHANGED <<claims, files, delivered, providerName, completed, runs>>
    /\ UNCHANGED <<analyticsVars, parseVars, exportVars>>

\* The promise of a file's callback once its parser has returned or thrown.
Settled(out) == IF out.threw THEN Rejected(out.message) ELSE Fulfilled(out.claims)

\* The read of one file completes and its parser runs; this also happens
\* after processFiles has gone on.
ReadDone(i) ==
    /\ pc \in {"awaiting", "done"}
    /\ promises[i].state = "pending"
    /\ promises' = [promises EXCEPT ![i] = Settled(ParseFile(files[i], providerName))]
    /\ allPromise' = AllAfter(allPromise, promises', i)
    /\ completed' = Append(completed, i)
    /\ UNCHANGED <<pc, claims, files, error, isProcessing, delivered, providerName, runs>>
    /\ UNCHANGED <<analyticsVars, parseVars, exportVars>>

\* handleDataLoaded (App.tsx): an empty list is refused with an alert.
handleDataLoaded(loadedClaims, old) == IF loadedClaims = <<>> THEN old ELSE loadedClaims

\* processFiles after the await: the merge and onDataLoaded, or the catch
\* block; then the finally block.
Resume ==
    /\ pc = "awaiting"
    /\ allPromise.state # "pending"
    /\ IF allPromise.state = "fulfilled"
       THEN LET combinedClaims == Concat(allPromise.result)
            IN /\ results' = allPromise.result
               /\ IF combinedClaims = <<>>
                  THEN /\ error' = NoValidDataMessage
                       /\ UNCHANGED <<claims, delivered>>
                  ELSE /\ delivered' = Append(delivered, Reindex(combinedClaims))
                       /\ claims' = handleDataLoaded(Reindex(combinedClaims), claims)
                       /\ UNCHANGED error
       ELSE /\ error' = FailedMessage(allPromise.reason)
            /\ UNCHANGED <<claims, delivered, results>>
    /\ isProcessing' = FALSE
    /\ pc' = "done"
    /\ UNCHANGED <<files, promises, allPromise, providerName, completed, runs>>
    /\ UNCHANGED <<layout, row, nRows, fileClaims, idCounter>>
    /\ UNCHANGED <<analyticsVars, exportVars>>

NextUpload == ProcessFiles \/ (\E i \in DOMAIN promises : ReadDone(i)) \/ Resume

SpecUpload == InitUpload /\ [][NextUpload]_vars

----------------------------------------------------------------------------
(* One report per run: the rows between the header and the end of a file    *)

MaxReportRows == 3

PaymentHeaders ==
    {<<Str(<<"D", "O", "S">>), Str(<<"C", "P", "T">>), Str(<<"A", "p", "p", "l", "i", "e", "d", " ", "P", "a", "y", "m", "e", "n", "t", "s">>)>>,
     <<Str(<<"D", "O", "S">>), Str(<<"C", "P", "T">>), Str(<<"A", "p", "p", "l", "i", "e", "d", " ", "P", "a", "y", "m", "e", "n", "t", "s">>), Str(<<"P", "a", "t", "i", "e", "n", "t", " ", "N", "a", "m", "e">>), Str(<<"P", "a", "t", "i", "e", "n", "t", " ", "I", "D">>), Str(<<"P", "a", "y", "e", "r">>), Str(<<"D", "e", "s", "c", ".">>)>>,
     <<Str(<<"D", "a", "t", "e", " ", "o", "f", " ", "S", "e", "r", "v", "i", "c", "e">>), Str(<<"C", "P", "T">>), Str(<<"A", "p", "p", "l", "i", "e", "d", " ", "P", "a", "y", "m", "e", "n", "t", "s">>)>>}

PaymentFull == <<Str(<<"1", "/", "5", "/", "2", "0", "2", "4">>), Str(<<"a", "1">>), Num(700), Str(<<"A", "n", "n">>), Str(<<"p", "1">>), Str(<<"A", "e", "t", "n", "a">>), Str(<<"p", "a", "y">>)>>

PaymentBlank == <<Str(<<"1", "/", "5", "/", "2", "0", "2", "4">>), Str(<<"a", "1">>), Str(<<"7">>), Str(<<>>), Str(<<>>), Str(<<>>), Str(<<"p", "a", "y">>)>>

PaymentAdj == <<Str(<<"1", "/", "5", "/", "2", "0", "2", "4">>), Str(<<"a", "1">>), Str(<<"7">>), Str(<<"A", "n", "n">>), Str(<<"p", "1">>), Str(<<"A", "e", "t", "n", "a">>), Str(<<"A", "d", "j">>)>>

ProviderRowX == <<Str(<<"P", "r", "o", "v", "i", "d", "e", "r", " ", "N", "a", "m", "e", ":", " ", "D", "r", " ", "X">>), Str(<<>>), Str(<<>>), Str(<<>>), Str(<<>>), Str(<<>>), Str(<<>>)>>

ProviderRowW == <<Str(<<"p", "r", "o", "v", "i", "d", "e", "r", " ", "n", "a", "m", "e", ":", "D", "r", " ", "W">>), Str(<<>>), Str(<<>>), Str(<<>>), Str(<<>>), Str(<<>>), Str(<<>>)>>

ProviderRowEmpty == <<Str(<<"P", "r", "o", "v", "i", "d", "e", "r", " ", "N", "a", "m", "e", ":", " ">>), Str(<<>>), Str(<<>>), Str(<<>>), Str(<<>>), Str(<<>>), Str(<<>>)>>

PaymentRows ==
    {PaymentFull, PaymentBlank, PaymentAdj, ProviderRowX, ProviderRowW, ProviderRowEmpty}

VisitHeaders ==
    {<<Str(<<"D", "a", "t", "e", " ", "o", "f", " ", "S", "e", "r", "v", "i", "c", "e">>), Str(<<"C", "P", "T">>), Str(<<"D", "a", "y", "s", " ", "o", "r", " ", "U", "n", "i", "t", "s">>), Str(<<"C", "h", "a", "r", "g", "e", "s">>), Str(<<"I", "n", "s", "u", "r", "a", "n", "c", "e", " ", "P", "a", "y", "m", "e", "n", "t">>)>>,
     <<Str(<<"D", "O", "S">>), Str(<<"C", "P", "T">>), Str(<<"D", "a", "y", "s", " ", "o", "r", " ", "U", "n", "i", "t", "s">>), Str(<<"C", "h", "a", "r", "g", "e", "s">>), Str(<<"I", "n", "s", "u", "r", "a", "n", "c", "e", " ", "P", "a", "y", "m", "e", "n", "t">>)>>}

VisitPatientAnn == <<Str(<<"P", "a", "t", "i", "e", "n", "t", ":", " ", "A", "n", "n">>), Str(<<"P", "a", "t", "i", "e", "n", "t", " ", "I", "D", ":", " ", "7">>), Str(<<>>), Str(<<>>), Str(<<>>)>>

VisitPatientBob == <<Str(<<"P", "a", "t", "i", "e", "n", "t", ":", " ", "B", "o", "b">>), Str(<<>>), Str(<<>>), Str(<<>>), Str(<<>>)>>

VisitInsurance == <<Str(<<"I", "n", "s", "u", "r", "a", "n", "c", "e", ":", " ", "A", "e", "t", "n", "a">>), Str(<<"P", "r", "o", "v", "i", "d", "e", "r", ":", " ", "D", "r", " ", "Y">>), Str(<<>>), Str(<<>>), Str(<<>>)>>

VisitData == <<Str(<<"1", "/", "5", "/", "2", "0", "2", "4">>), Str(<<"a", "1">>), Str(<<"2">>), Str(<<"1", "0">>), Str(<<"7">>)>>

VisitRows == {VisitPatientAnn, VisitPatientBob, VisitInsurance, VisitData}

ReportHeaderLines ==
    {<<"c", "p", "t", ",", "p", "a", "i", "d", ",", "p", "a", "t", "i", "e", "n", "t", "_", "i", "d", ",", "p", "a", "t", "i", "e", "n", "t", "_", "n", "a", "m", "e", ",", "p", "a", "y", "e", "r", ",", "p", "r", "o", "v", "i", "d", "e", "r">>,
     <<"c", "p", "t", ",", "p", "a", "i", "d">>}

ReportLines ==
    {<<"\n", "a", "1", ",", "7", ",", "p", "1", ",", "A", "n", "n", ",", "A", "e", "t", "n", "a", ",", "D", "r", " ", "Z">>,
     <<"\n", "a", "1", ",", "7", ",", ",", ",", ",">>,
     <<"\n", "a", "1", ",", "7">>}

RECURSIVE Flatten(_)
Flatten(ss) == IF ss = <<>> THEN <<>> ELSE Head(ss) \o Flatten(Tail(ss))

ReportPool ==
    {File(<<"p", ".", "x", "l", "s", "x">>, <<>>, <<h>> \o body) :
        h \in PaymentHeaders, body \in SeqsUpTo(PaymentRows, MaxReportRows)}
    \cup {File(<<"v", ".", "x", "l", "s">>, <<>>, <<h>> \o body) :
        h \in VisitHeaders, body \in SeqsUpTo(VisitRows, MaxReportRows)}
    \cup {File(<<"r", ".", "c", "s", "v">>, h \o Flatten(body), <<>>) :
        h \in ReportHeaderLines, body \in SeqsUpTo(ReportLines, MaxReportRows)}

FallbackProviders == {<<>>, <<"D", "r", " ", "F">>}

\* One report is dropped, with or without a provider name typed in.
InitReports ==
    /\ pc = "ready"
    /\ claims = <<>>
    /\ rates = <<>>
    /\ locals = <<>>
    /\ stats = <<>>
    /\ patients = <<>>
    /\ cursor = 0
    /\ NoParse
    /\ files \in {<<f>> : f \in ReportPool}
    /\ promises = <<>>
    /\ allPromise = Pending
    /\ error = NoMessage
    /\ isProcessing = FALSE
    /\ delivered = <<>>
    /\ providerName \in FallbackProviders
    /\ completed = <<>>
    /\ runs = <<>>
    /\ NoExport

SpecReports == InitReports /\ [][NextUpload]_vars

----------------------------------------------------------------------------
(* handleDrop: files are dropped while an earlier processFiles call awaits   *)

MaxDrops == 2

DropBatches ==
    {<<File(<<"a", ".", "c", "s", "v">>, <<"c", "p", "t", ",", "p", "a", "i", "d", "\n", "a", "1", ",", "7">>, <<>>)>>,
     <<File(<<"b", ".", "c", "s", "v">>, <<"c", "p", "t", ",", "p", "a", "i", "d", "\n", "q", "2", ",", "5">>, <<>>)>>,
     <<File(<<"c", ".", "c", "s", "v">>, <<"c", "o", "d", "e", ",", "p", "a", "i", "d", "\n", "a", "1", ",", "7">>, <<>>)>>,
     <<File(<<"d", ".", "c", "s", "v">>, <<"c", "p", "t", ",", "p", "a", "i", "d">>, <<>>)>>}

\* App renders UploadScreen while hasData is false; handleDataLoaded sets
\* hasData with the claims.
UploadScreenMounted == claims = <<>>

\* A processFiles call whose await has a settled promise resumes before the
\* next event (a drop, the end of a read) is handled.
ResumeDue(r) == runs[r].pc = "awaiting" /\ runs[r].allPromise.state # "pending"

InitDrops ==
    /\ pc = "ready"
    /\ claims = <<>>
    /\ rates = <<>>
    /\ locals = <<>>
    /\ stats = <<>>
    /\ patients = <<>>
    /\ cursor = 0
    /\ NoParse
    /\ NoUpload
    /\ NoExport

\* handleDrop: processFiles(e.dataTransfer.files) up to its await.
Drop ==
    /\ Len(runs) < MaxDrops
    /\ UploadScreenMounted
    /\ \A r \in DOMAIN runs : ~ResumeDue(r)
    /\ \E batch \in DropBatches :
         LET ps == [i \in DOMAIN batch |-> StartFile(batch[i])]
         IN runs' = Append(runs, [files |-> batch, promises |-> ps,
                                  allPromise |-> AllAfter(Pending, ps, 0),
                                  pc |-> "awaiting"])
    /\ error' = NoMessage
    /\ isProcessing' = TRUE
    /\ UNCHANGED <<pc, claims, files, promises, allPromise, delivered, providerName, completed>>
    /\ UNCHANGED <<analyticsVars, parseVars, exportVars>>

\* A processFiles call after the promise of its file i has settled as p.
AfterRead(run, i, p) ==
    [run EXCEPT !.promises = [run.promises EXCEPT ![i] = p],
                !.allPromise = AllAfter(run.allPromise, [run.promises EXCEPT ![i] = p], i)]

\* The read of file i of call r completes and its parser runs.
DropReadDone(r, i) ==
    /\ runs[r].promises[i].state = "pending"
    /\ \A q \in DOMAIN runs : ~ResumeDue(q)
    /\ runs' = [runs EXCEPT
                   ![r] = AfterRead(runs[r], i,
                                    Settled(ParseFile(runs[r].files[i], providerName)))]
    /\ UNCHANGED <<pc, claims, files, promises, allPromise, error, isProcessing, delivered,
                   providerName, completed>>
    /\ UNCHANGED <<analyticsVars, parseVars, exportVars>>

\* Call r after its await: the merge and onDataLoaded, or the catch block;
\* then the finally block. The setters of an unmounted UploadScreen do
\* nothing.
DropResume(r) ==
    /\ ResumeDue(r)
    /\ LET all == runs[r].allPromise
           combinedClaims == Concat(all.result)
       IN IF all.state = "fulfilled"
          THEN IF combinedClaims = <<>>
               THEN /\ error' = IF UploadScreenMounted THEN NoValidDataMessage ELSE error
                    /\ UNCHANGED <<claims, delivered>>
               ELSE /\ delivered' = Append(delivered, Reindex(combinedClaims))
                    /\ claims' = handleDataLoaded(Reindex(combinedClaims), claims)
                    /\ UNCHANGED error
          ELSE /\ error' = IF UploadScreenMounted THEN FailedMessage(all.reason) ELSE error
               /\ UNCHANGED <<claims, delivered>>
    /\ isProcessing' = IF UploadScreenMounted THEN FALSE ELSE isProcessing
    /\ runs' = [runs EXCEPT ![r].pc = "done"]
    /\ UNCHANGED <<pc, files, promises, allPromise, providerName, completed>>
    /\ UNCHANGED <<analyticsVars, parseVars, exportVars>>

NextDrops ==
    \/ Drop
    \/ \E r \in DOMAIN runs : \E i \in DOMAIN runs[r].files : DropReadDone(r, i)
    \/ \E r \in DOMAIN runs : DropResume(r)

SpecDrops == InitDrops /\ [][NextDrops]_vars

----------------------------------------------------------------------------
(* downloadCSV: the escape of a field, and its export read back             *)

\* str.replace(/"/g, '""')
RECURSIVE DoubleQuotes(_)
DoubleQuotes(str) ==
    IF str = <<>> THEN <<>>
    ELSE (IF Head(str) = "\"" THEN <<"\"", "\"">> ELSE <<Head(str)>>)
            \o DoubleQuotes(Tail(str))

\* escape of downloadCSV, on a string value.
escapeNoDoubling(val) ==
    IF Includes(val, <<",">>) \/ Includes(val, <<"\"">>) \/ Includes(val, <<"\n">>)
    THEN <<"\"">> \o val \o <<"\"">>
    ELSE val

escape(val) ==
    IF Includes(val, <<",">>) \/ Includes(val, <<"\"">>) \/ Includes(val, <<"\n">>)
    THEN <<"\"">> \o DoubleQuotes(val) \o <<"\"">>
    ELSE val

MaxFieldLen == 4

FieldChars == {"a", ",", "\"", "\n", "\r"}

FieldValues == SeqsUpTo(FieldChars, MaxFieldLen)

InitExport ==
    /\ pc = "export"
    /\ claims = <<>>
    /\ rates = <<>>
    /\ locals = <<>>
    /\ stats = <<>>
    /\ patients = <<>>
    /\ cursor = 0
    /\ NoParse
    /\ NoUpload
    /\ value \in FieldValues
    /\ line = <<>>
    /\ tokens = <<>>
    /\ timezone = 0
    /\ scan = NoScan

\* downloadCSV writes the field.
Escape ==
    /\ pc = "export"
    /\ line' = escape(value)
    /\ pc' = "escaped"
    /\ UNCHANGED <<claims, value, tokens, timezone, scan>>
    /\ UNCHANGED <<analyticsVars, parseVars, uploadVars>>

\* The exported line is read back with the comma as delimiter.
Tokenize ==
    /\ pc = "escaped"
    /\ tokens' = parseCSVLine(line, ",")
    /\ pc' = "tokenized"
    /\ UNCHANGED <<claims, value, line, timezone, scan>>
    /\ UNCHANGED <<analyticsVars, parseVars, uploadVars>>

NextExport == Escape \/ Tokenize

SpecExport == InitExport /\ [][NextExport]_vars

----------------------------------------------------------------------------
(* downloadCSV: the DOS field of a claim whose date parseDOS has built       *)

MinutesPerDay == 1440

\* The year, month and day of a day counted from 1 January 1970 (the UTC
\* fields Date.prototype.toISOString prints).
CivilFromDays(days) ==
    LET z == days + 719468
        era == z \div 146097
        doe == z - era * 146097
        yoe == (doe - doe \div 1460 + doe \div 36524 - doe \div 146096) \div 365
        doy == doe - (365 * yoe + yoe \div 4 - yoe \div 100)
        mp == (5 * doy + 2) \div 153
        d == doy - (153 * mp + 2) \div 5 + 1
        m == IF mp < 10 THEN mp + 3 ELSE mp - 9
    IN [y |-> yoe + era * 400 + (IF m <= 2 THEN 1 ELSE 0), m |-> m, d |-> d]

Pad2(n) == IF n < 10 THEN <<"0">> \o NatText(n) ELSE NatText(n)

IsoDateText(y, m, d) == NatText(y) \o <<"-">> \o Pad2(m) \o <<"-">> \o Pad2(d)

\* dos.getTime() in minutes since the epoch, UTC: new Date(y, m - 1, d) is
\* midnight of that day on the machine's clock, which is tz minutes ahead of
\* UTC.
UtcMinutes(dos, tz) == MinutesPerDay * dos[1] - tz

\* c.dos ? c.dos.toISOString().split('T')[0] : ''
ExportDos(dos, tz) ==
    IF dos = <<>> THEN <<>>
    ELSE LET c == CivilFromDays(UtcMinutes(dos, tz) \div MinutesPerDay)
         IN IsoDateText(c.y, c.m, c.d)

DateYears == {2023, 2024}

DateMonths == {1, 3, 12}

DateDays == {1, 15, 31}

\* Date texts with the calendar day each of them names.
KnownDates ==
    {[text |-> IsoDateText(y, m, d), day |-> IsoDateText(y, m, d)] :
        y \in DateYears, m \in DateMonths, d \in DateDays}
    \cup {[text |-> NatText(m) \o <<"/">> \o NatText(d) \o <<"/">> \o NatText(y),
           day |-> IsoDateText(y, m, d)] :
        y \in DateYears, m \in DateMonths, d \in DateDays}

UnknownDates == {<<>>, <<"n", "/", "a">>}

\* Offsets from UTC in minutes: Los Angeles, New York, London, Berlin, Delhi,
\* Tokyo.
TimeZones == {0 - 480, 0 - 300, 0, 60, 330, 540}

InitDates ==
    /\ pc = "date"
    /\ claims = <<>>
    /\ rates = <<>>
    /\ locals = <<>>
    /\ stats = <<>>
    /\ patients = <<>>
    /\ cursor = 0
    /\ NoParse
    /\ NoUpload
    /\ value \in {k.text : k \in KnownDates} \cup UnknownDates
    /\ line = <<>>
    /\ tokens = <<>>
    /\ timezone \in TimeZones
    /\ scan = NoScan

\* A parser builds the claim of a row whose date cell holds the text.
ParseDate ==
    /\ pc = "date"
    /\ claims' = WithParties(<<ParsedClaim(1, <<"a", "1">>, 1, 0, 0, parseDOS(Str(value)))>>,
                             UnknownProvider, UnknownPayer, UnknownId, UnknownPatient)
    /\ pc' = "parsed"
    /\ UNCHANGED <<analyticsVars, parseVars, uploadVars, exportVars>>

\* downloadCSV builds the DOS field of the claim.
ExportDate ==
    /\ pc = "parsed"
    /\ line' = ExportDos(claims[1].dos, timezone)
    /\ pc' = "exported"
    /\ UNCHANGED <<claims, value, tokens, timezone, scan>>
    /\ UNCHANGED <<analyticsVars, parseVars, uploadVars>>

NextDates == ParseDate \/ ExportDate

SpecDates == InitDates /\ [][NextDates]_vars

----------------------------------------------------------------------------
(* parseCSVLine, one character at a time                                     *)

MaxScanLen == 4

ScanChars == {"a", ",", "\t", "\"", "\n", "\r"}

Delimiters == {",", "\t"}

\* parseCSVLine(text, delim) has been called and has set up its locals.
InitScan ==
    /\ pc = "scanning"
    /\ claims = <<>>
    /\ rates = <<>>
    /\ locals = <<>>
    /\ stats = <<>>
    /\ patients = <<>>
    /\ cursor = 0
    /\ NoParse
    /\ NoUpload
    /\ value \in SeqsUpTo(ScanChars, MaxScanLen)
    /\ line = <<>>
    /\ tokens = <<>>
    /\ timezone = 0
    /\ scan \in {[NoScan EXCEPT !.i = 1, !.delim = d] : d \in Delimiters}

ScanChar ==
    /\ pc = "scanning"
    /\ scan.i <= Len(value)
    /\ scan' = ScanStep(value, scan)
    /\ UNCHANGED <<pc, claims, value, line, tokens, timezone>>
    /\ UNCHANGED <<analyticsVars, parseVars, uploadVars>>

ScanReturn ==
    /\ pc = "scanning"
    /\ scan.i > Len(value)
    /\ tokens' = ScanResult(scan)
    /\ pc' = "scanned"
    /\ UNCHANGED <<claims, value, line, timezone, scan>>
    /\ UNCHANGED <<analyticsVars, parseVars, uploadVars>>

NextScan == ScanChar \/ ScanReturn

SpecScan == InitScan /\ [][NextScan]_vars

----------------------------------------------------------------------------
(* downloadCSV, and its text read back by parseClaimsData                    *)

\* String(n) of a whole number.
IntText(n) == IF n < 0 THEN <<"-">> \o NatText(0 - n) ELSE NatText(n)

RECURSIVE Join(_, _)
Join(parts, sep) ==
    IF parts = <<>> THEN <<>>
    ELSE IF Len(parts) = 1 THEN parts[1]
    ELSE parts[1] \o sep \o Join(Tail(parts), sep)

ExportHeaders ==
    <<<<"C", "l", "a", "i", "m", " ", "I", "D">>,
      <<"P", "r", "o", "v", "i", "d", "e", "r">>,
      <<"P", "a", "y", "e", "r">>,
      <<"P", "a", "t", "i", "e", "n", "t", " ", "N", "a", "m", "e">>,
      <<"P", "a", "t", "i", "e", "n", "t", " ", "I", "D">>,
      <<"C", "P", "T">>,
      <<"U", "n", "i", "t", "s">>,
      <<"D", "O", "S">>,
      <<"C", "h", "a", "r", "g", "e">>,
      <<"P", "a", "i", "d">>,
      <<"S", "t", "a", "t", "u", "s">>>>

\* The fields of the row downloadCSV writes for a claim, each as String(val).
ExportFields(c, tz) ==
    <<IntText(c.id), c.provider, c.payer, c.patientName, c.patientId, c.cpt,
      IntText(c.units), ExportDos(c.dos, tz), ToFixed2(c.charge), ToFixed2(c.paid),
      IF c.isPaid THEN <<"P", "a", "i", "d">> ELSE <<"U", "n", "p", "a", "i", "d">>>>

EscapeAll(fields) == [i \in DOMAIN fields |-> escape(fields[i])]

\* csvContent of downloadCSV.
downloadCSV(cs, tz) ==
    Join(<<Join(EscapeAll(ExportHeaders), <<",">>)>>
            \o [i \in DOMAIN cs |-> Join(EscapeAll(ExportFields(cs[i], tz)), <<",">>)],
         <<"\n">>)

MaxExportClaims == 2

ExportClaim(cpt, units, charge, paid, dos, provider, payer, patientId, patientName) ==
    WithParties(<<ParsedClaim(1, cpt, units, charge, paid, dos)>>,
                provider, payer, patientId, patientName)[1]

\* Claims as the parsers build them.
ExportClaimPool ==
    {ExportClaim(<<"A", "1">>, 1, 1000, 700, <<EpochDay(2024, 1, 5)>>,
                <<"D", "r", " ", "F">>, <<"A", "e", "t", "n", "a">>,
                <<"p", "1">>, <<"A", "n", "n">>),
     ExportClaim(<<"Q", "2">>, 2, 1050, 0, <<>>,
                <<"S", "u", "n", ",", " ", "D", "P", "M">>, <<"A", "e", "t", "n", "a">>,
                <<"p", "2">>, <<"B", "o", "b">>),
     ExportClaim(<<"A", "1">>, 1, 0, 1, <<EpochDay(2024, 1, 5)>>,
                UnknownProvider, UnknownPayer,
                UnknownId, UnknownPatient),
     ExportClaim(<<"A", "1">>, 3, 2500, 2500, <<EpochDay(2024, 1, 5)>>,
                <<"D", "r", " ", "F">>, <<"U", "n", "i", "t", "e", "d", "H", "e", "a", "l", "t", "h", "c", "a", "r", "e">>,
                <<"7">>, <<"A", "n", "n", " ", "\"", "A", "\"">>),
     ExportClaim(<<"Q", "2">>, 0, 150, 150, <<>>,
                <<"D", "r", " ", "F">>, <<"A", "e", "t", "n", "a">>,
                UnknownId, <<"A", "n", "n">>),
     ExportClaim(<<"X", "9">>, 1, 99, 2, <<EpochDay(2024, 1, 5)>>,
                <<"D", "r", " ", "G">>, <<"C", "i", "g", "n", "a">>,
                <<"p", "1">>, UnknownPatient)}

\* A claim set has been loaded (ids as processFiles gives them).
InitRoundTrip ==
    /\ pc = "loaded"
    /\ claims \in {Reindex(cs) : cs \in SeqsUpTo(ExportClaimPool, MaxExportClaims) \ {<<>>}}
    /\ rates = <<>>
    /\ locals = <<>>
    /\ stats = <<>>
    /\ patients = <<>>
    /\ cursor = 0
    /\ NoParse
    /\ NoUpload
    /\ NoExport

\* downloadCSV builds the text of the export.
Download ==
    /\ pc = "loaded"
    /\ line' = downloadCSV(claims, timezone)
    /\ pc' = "downloaded"
    /\ UNCHANGED <<claims, value, tokens, timezone, scan>>
    /\ UNCHANGED <<analyticsVars, parseVars, uploadVars>>

\* The exported text is given to parseClaimsData.
Reingest ==
    /\ pc = "downloaded"
    /\ fileClaims' = parseClaimsData(line, <<>>).claims
    /\ pc' = "reingested"
    /\ UNCHANGED <<claims, layout, row, nRows, idCounter, results>>
    /\ UNCHANGED <<analyticsVars, uploadVars, exportVars>>

NextRoundTrip == Download \/ Reingest

SpecRoundTrip == InitRoundTrip /\ [][NextRoundTrip]_vars

----------------------------------------------------------------------------
(* normalizePayerName applied to a raw payer text, and to its own result     *)

MaxPayerLen == 4

PayerChars == {" ", "\t", "u", "H", "c", "a"}

InitPayer ==
    /\ pc = "raw"
    /\ claims = <<>>
    /\ rates = <<>>
    /\ locals = <<>>
    /\ stats = <<>>
    /\ patients = <<>>
    /\ cursor = 0
    /\ NoParse
    /\ NoUpload
    /\ value \in SeqsUpTo(PayerChars, MaxPayerLen)
    /\ line = <<>>
    /\ tokens = <<>>
    /\ timezone = 0
    /\ scan = NoScan

\* normalizePayerName(raw)
NormalizePayer ==
    /\ pc = "raw"
    /\ line' = normalizePayerName(value)
    /\ pc' = "normalized"
    /\ UNCHANGED <<claims, value, tokens, timezone, scan>>
    /\ UNCHANGED <<analyticsVars, parseVars, uploadVars>>

\* normalizePayerName on the name it returned.
NormalizeAgain ==
    /\ pc = "normalized"
    /\ tokens' = <<normalizePayerName(line)>>
    /\ pc' = "renormalized"
    /\ UNCHANGED <<claims, value, line, timezone, scan>>
    /\ UNCHANGED <<analyticsVars, parseVars, uploadVars>>

NextPayer == NormalizePayer \/ NormalizeAgain

SpecPayer == InitPayer /\ [][NextPayer]_vars

----------------------------------------------------------------------------
(* What the rate inference is specified to compute, stated on the claim set *)

\* The qualifying paid claims of a (payer, cpt) group, by position.
GroupClaims(k) ==
    {i \in DOMAIN claims :
        /\ claims[i].payer = k[1] /\ claims[i].cpt = k[2]
        /\ claims[i].isPaid /\ claims[i].paid > 0 /\ claims[i].units > 0}

\* paid / units to the nearest cent, a half going up.
UnitPrice(c) ==
    LET whole == c.paid \div c.units
        rest == c.paid % c.units
    IN IF 2 * rest >= c.units THEN whole + 1 ELSE whole

DistinctPrices(k) == {UnitPrice(claims[i]) : i \in GroupClaims(k)}

Occurrences(k, r) == Cardinality({i \in GroupClaims(k) : UnitPrice(claims[i]) = r})

SetMax(S) == CHOOSE x \in S : \A y \in S : y <= x

HighestCount(k) == SetMax({Occurrences(k, r) : r \in DistinctPrices(k)})

MostFrequentPrices(k) == {r \in DistinctPrices(k) : Occurrences(k, r) = HighestCount(k)}

AllKeys == Payers \X Cpts

\* C1: every entry of the rate table has expectedRate = the mode rate (the
\* greatest of the most frequent unit prices) and method "Mode" when its group
\* has more than 2 distinct unit prices, and expectedRate = the highest unit
\* price and method "Max" when it has at most 2.
C1_SelectionRule ==
    pc = "rated" =>
        \A k \in DOMAIN rates :
            IF Cardinality(DistinctPrices(k)) > 2
            THEN /\ rates[k].expectedRate = SetMax(MostFrequentPrices(k))
                 /\ rates[k].expectedRate = locals[k].modeRate
                 /\ rates[k].method = "Mode"
            ELSE /\ rates[k].expectedRate = SetMax(DistinctPrices(k))
                 /\ rates[k].method = "Max"

\* Both branches in one table: a group with 3 distinct prices whose mode is
\* not its maximum, next to a group with at most 2.
C1_Witness ==
    /\ pc = "rated"
    /\ \E k \in DOMAIN rates :
        /\ Cardinality(DistinctPrices(k)) > 2
        /\ rates[k].method = "Mode"
        /\ rates[k].expectedRate < SetMax(DistinctPrices(k))
    /\ \E k \in DOMAIN rates :
        /\ Cardinality(DistinctPrices(k)) <= 2
        /\ rates[k].method = "Max"

\* C2: modeRate of every group is the greatest of the unit prices that have
\* the highest occurrence count, whatever the order of the claims.
C2_ModeTieBreak ==
    pc = "rated" =>
        \A k \in DOMAIN locals :
            /\ locals[k].modeRate = SetMax(MostFrequentPrices(k))
            /\ locals[k].maxFreq = HighestCount(k)

\* A tie at the highest count in which the lower price comes first in the
\* input, in a group that is decided by its mode.
C2_Witness ==
    /\ pc = "rated"
    /\ \E k \in DOMAIN locals :
        /\ Cardinality(MostFrequentPrices(k)) >= 2
        /\ rates[k].method = "Mode"
        /\ locals[k].modeRate < locals[k].maxRate
        /\ \E i, j \in GroupClaims(k) :
            /\ i < j
            /\ UnitPrice(claims[j]) = locals[k].modeRate
            /\ UnitPrice(claims[i]) \in MostFrequentPrices(k) \ {locals[k].modeRate}
            /\ \A h \in GroupClaims(k) : h < i => UnitPrice(claims[h]) # locals[k].modeRate

SpecQualifies(c) == c.isPaid /\ c.paid > 0 /\ c.units > 0

\* C4: the table has an entry for (payer, cpt) exactly when some claim of that
\* payer and cpt has isPaid, paid > 0 and units > 0; the table is the one the
\* qualifying claims alone give; no entry has method "None".
C4_EntryIffQualifying ==
    pc = "rated" =>
        /\ DOMAIN rates = {k \in AllKeys : GroupClaims(k) # {}}
        /\ rates = calculateReimbursementRates(SelectSeq(claims, SpecQualifies))
        /\ \A k \in DOMAIN rates :
            /\ rates[k].method # "None"
            /\ rates[k].payer = k[1] /\ rates[k].cpt = k[2]

\* A table with an entry, next to a group whose only claims fail a condition
\* (one not isPaid, one without units) and that has no entry.
C4_Witness ==
    /\ pc = "rated"
    /\ DOMAIN rates # {}
    /\ \E i, j \in DOMAIN claims :
        /\ ~claims[i].isPaid /\ claims[i].paid > 0 /\ claims[i].units > 0
        /\ claims[j].isPaid /\ claims[j].units = 0
        /\ KeyOf(claims[i]) \notin DOMAIN rates
        /\ Len(SelectSeq(claims, SpecQualifies)) < Len(claims)

----------------------------------------------------------------------------
(* Denial opportunity                                                       *)

Denied(i) == ~claims[i].isPaid

HasRate(i) == KeyOf(claims[i]) \in DOMAIN rates

\* The sum of f[i] over the claims i that satisfy keep[i].
SumWhere(keep, f) ==
    SumSeq([i \in DOMAIN claims |-> IF keep[i] THEN f[i] ELSE 0])

\* C5: projectedValue of every payer record is the sum of units x expectedRate
\* over that payer's unpaid claims whose (payer, cpt) has a rate entry; an
\* unpaid claim without an entry adds 0, never its charge.
C5_ProjectedValue ==
    pc = "denial" =>
        \A j \in DOMAIN stats :
            stats[j].projectedValue =
                SumWhere([i \in DOMAIN claims |->
                            Denied(i) /\ claims[i].payer = stats[j].payer /\ HasRate(i)],
                         [i \in DOMAIN claims |->
                            IF HasRate(i)
                            THEN claims[i].units * rates[KeyOf(claims[i])].expectedRate
                            ELSE 0])

\* A payer with an unpaid claim that has a rate and an unpaid claim, with a
\* charge, that has none.
C5_Witness ==
    /\ pc = "denial"
    /\ \E j \in DOMAIN stats : \E a, b \in DOMAIN claims :
        /\ Denied(a) /\ Denied(b)
        /\ claims[a].payer = stats[j].payer /\ claims[b].payer = stats[j].payer
        /\ HasRate(a) /\ claims[a].units > 0
        /\ ~HasRate(b) /\ claims[b].charge > 0
        /\ stats[j].projectedValue > 0

\* C6: one record per payer with an unpaid claim and none for any other payer;
\* deniedUnits and deniedValue are the sums of units and of charge over that
\* payer's unpaid claims, so paid claims add to no record.
C6_DenialRecords ==
    pc = "denial" =>
        /\ {stats[j].payer : j \in DOMAIN stats}
              = {claims[i].payer : i \in {n \in DOMAIN claims : Denied(n)}}
        /\ \A j, h \in DOMAIN stats : stats[j].payer = stats[h].payer => j = h
        /\ \A j \in DOMAIN stats :
            LET mine == [i \in DOMAIN claims |->
                            Denied(i) /\ claims[i].payer = stats[j].payer]
            IN /\ stats[j].deniedUnits =
                    SumWhere(mine, [i \in DOMAIN claims |-> claims[i].units])
               /\ stats[j].deniedValue =
                    SumWhere(mine, [i \in DOMAIN claims |-> claims[i].charge])

\* A payer with a paid and an unpaid claim, next to a payer whose only claim
\* is paid and that gets no record.
C6_Witness ==
    /\ pc = "denial"
    /\ Len(stats) = 1
    /\ \E a, b, c \in DOMAIN claims :
        /\ Denied(a) /\ ~Denied(b) /\ ~Denied(c)
        /\ claims[a].payer = stats[1].payer /\ claims[b].payer = stats[1].payer
        /\ claims[b].charge > 0 /\ claims[b].units > 0
        /\ claims[c].payer # stats[1].payer

----------------------------------------------------------------------------
(* Patient encounters                                                       *)

ClaimsOf(pid) == {i \in DOMAIN claims : claims[i].patientId = pid}

Visited(pid) == {i \in ClaimsOf(pid) : i <= cursor}

SetMin(S) == CHOOSE x \in S : \A y \in S : x <= y

\* C7: totalVisits of every patient is the number of distinct service dates
\* (the unknown date being one of them) among that patient's claims, whatever
\* the patient id.
C7_VisitsAreDistinctDates ==
    pc = "patients" =>
        \A j \in DOMAIN patients :
            patients[j].totalVisits =
                Cardinality({claims[i].dos : i \in ClaimsOf(patients[j].patientId)})

\* C8: the payer of a patient's record is the payer of the first claim, in
\* input order, that carries the patient id, and stays so after every later
\* claim of the patient.
C8_PayerOfFirstClaim ==
    \A j \in DOMAIN patients :
        /\ Visited(patients[j].patientId) # {}
        /\ patients[j].payer = claims[SetMin(Visited(patients[j].patientId))].payer

\* A later claim of the patient, with another payer, has been visited.
C8_Witness ==
    \E j \in DOMAIN patients : \E i \in Visited(patients[j].patientId) :
        /\ i > SetMin(Visited(patients[j].patientId))
        /\ claims[i].payer # patients[j].payer

\* C9 as stated: the payer of a patient's record is the payer of the last
\* claim in input order that carries the patient id.
C9_PayerOfLastClaim ==
    pc = "patients" =>
        \A j \in DOMAIN patients :
            patients[j].payer = claims[SetMax(ClaimsOf(patients[j].patientId))].payer

\* C9 amended: in the returned array the payer of a patient is the payer of
\* the claim that created the record, the first in input order with that id.
C9_ReturnedPayerIsCreators ==
    pc = "patients" =>
        \A j \in DOMAIN patients : \E i \in ClaimsOf(patients[j].patientId) :
            /\ \A h \in ClaimsOf(patients[j].patientId) : i <= h
            /\ patients[j].payer = claims[i].payer

\* A returned record whose patient's first and last claims differ in payer.
C9_Witness ==
    /\ pc = "patients"
    /\ \E j \in DOMAIN patients :
        LET mine == ClaimsOf(patients[j].patientId)
        IN /\ claims[SetMin(mine)].payer # claims[SetMax(mine)].payer
           /\ patients[j].payer = claims[SetMin(mine)].payer

----------------------------------------------------------------------------
(* Parsed claims                                                            *)

\* Every claim the parsers have produced so far in the batch.
ProducedClaims ==
    Range(fileClaims) \cup Range(Concat(results))
        \cup (IF pc = "loaded" THEN Range(claims) ELSE {})

\* A money cell written as a negative amount: a leading minus, accounting
\* parentheses, or a negative number.
WrittenNegative(cell) ==
    \/ cell.t = "n" /\ cell.n < 0
    \/ cell.t = "s" /\ cell.s # <<>> /\ Head(cell.s) \in {"-", "("}

\* C10: every claim emitted by the three row loops has paid >= 0 and isPaid
\* exactly when paid > 0.01 (more than 1 cent), whatever the paid cell; the
\* merged batch carries the same paid and isPaid, claim by claim.
C10_PaidNonNegative ==
    /\ \A c \in ProducedClaims : c.paid >= 0 /\ (c.isPaid <=> c.paid > 1)
    /\ pc = "loaded" =>
        /\ Len(claims) = Len(Concat(results))
        /\ \A i \in DOMAIN claims :
            /\ claims[i].paid = Concat(results)[i].paid
            /\ claims[i].isPaid = Concat(results)[i].isPaid

\* Two files merged, each row read having given a claim; the last claim comes
\* from a cell written as a negative amount, is paid, and was re-numbered.
C10_Witness ==
    /\ pc = "loaded"
    /\ Len(results) = 2 /\ nRows = 2 /\ Len(claims) = 2
    /\ Len(results[2]) = 1
    /\ WrittenNegative(row.paid)
    /\ claims[2].paid > 1 /\ claims[2].isPaid
    /\ claims[2].id = 2 /\ results[2][1].id = 1
    /\ ~claims[1].isPaid /\ claims[1].paid = 1

----------------------------------------------------------------------------
(* Field invariants of the emitted claims                                   *)

LowerCaseLetters == {"a", "q", "x"}

IsUpperCase(s) == \A i \in DOMAIN s : s[i] \notin LowerCaseLetters

\* C11: every claim emitted by the three row loops has a procedure code that
\* is non-empty and uppercase (so a row whose procedure-code cell is empty or
\* blank gives no claim).
C11_CptNonEmptyUppercase ==
    \A c \in ProducedClaims : c.cpt # <<>> /\ IsUpperCase(c.cpt)

\* C12: every claim emitted by the three row loops has units >= 0.
C12_UnitsNonNegative ==
    \A c \in ProducedClaims : c.units >= 0

\* C13: every claim emitted by the three row loops has charge >= 0, also
\* when the charge cell is written in parentheses or with a minus sign.
C13_ChargeNonNegative ==
    \A c \in ProducedClaims : c.charge >= 0

\* C14: the claims of one parse call carry ids 1, 2, ..., N in emission
\* order (a skipped row consumes no id), and the claim list handed to
\* onDataLoaded after the merge carries ids 1..total in concatenation order,
\* every other field kept.
C14_DenseIds ==
    /\ \A i \in DOMAIN fileClaims : fileClaims[i].id = i
    /\ idCounter = Len(fileClaims) + 1
    /\ \A j \in DOMAIN results : \A i \in DOMAIN results[j] : results[j][i].id = i
    /\ pc = "loaded" =>
        /\ Len(claims) = Len(Concat(results))
        /\ \A i \in DOMAIN claims : claims[i] = [Concat(results)[i] EXCEPT !.id = i]
        /\ \A i, j \in DOMAIN claims : claims[i].id = claims[j].id => i = j

\* Two files merged, 4 rows read of which one was skipped: the second file's
\* claims were numbered 1, 2 by the parser and are 2, 3 in the merged list.
C14_Witness ==
    /\ pc = "loaded"
    /\ nRows = 4 /\ Len(results) = 2
    /\ Len(results[1]) = 1 /\ Len(results[2]) = 2
    /\ results[2][2].id = 2
    /\ claims[3].id = 3

----------------------------------------------------------------------------
(* Errors of an upload                                                      *)

\* The header row of a delimited text: the cells of its first line.
HeaderCells(text) ==
    LET rows == parseCSVLine(text, detectDelimiter(text))
    IN IF rows = <<>> THEN <<>> ELSE rows[1]

\* The text has a header row and none of its cells names the procedure code.
LacksCptColumn(text) ==
    /\ HeaderCells(text) # <<>>
    /\ \A i \in DOMAIN HeaderCells(text) :
        Trim(ToLowerCase(HeaderCells(text)[i])) \notin Range(CptHeaders)

\* C15: parseClaimsData on a text whose header row has no 'cpt', 'procedure
\* code' or 'proc code' cell throws the error that names the CPT column, also
\* when the text is the header line alone; on a text whose header has such a
\* cell it returns (malformed rows are skipped or defaulted).
C15_MissingCptIsHardError ==
    \A i \in DOMAIN promises :
        (IsTextName(files[i].name) /\ promises[i].state # "pending") =>
            IF LacksCptColumn(files[i].text)
            THEN promises[i] = Rejected(CptColumnMessage)
            ELSE promises[i].state = "fulfilled"

\* The file cannot be ingested: its type is unsupported or its parser throws.
Unsupported(f) == ~IsSheetName(f.name) /\ ~IsTextName(f.name)

FailsStructurally(f) == ~Unsupported(f) /\ ParseFile(f, providerName).threw

BadFiles == {i \in DOMAIN files : Unsupported(files[i]) \/ FailsStructurally(files[i])}

\* C16: when a file of the batch has an unsupported type or a parser that
\* throws, onDataLoaded is never called and no claim is loaded, in whatever
\* order the reads complete; once processFiles has finished, the error is a
\* 'Failed to process files: ' message and isProcessing is false.
C16_BadFileAbortsBatch ==
    BadFiles # {} =>
        /\ delivered = <<>>
        /\ claims = <<>>
        /\ pc = "done" =>
            /\ error.text # <<>>
            /\ error.text[1] = "Failed to process files: "
            /\ isProcessing = FALSE

\* A two-file batch has finished: the first file parsed to claims, the
\* second was rejected, nothing was loaded.
C16_Witness ==
    /\ pc = "done"
    /\ Len(files) = 2
    /\ promises[1].state = "fulfilled" /\ promises[1].result # <<>>
    /\ promises[2].state = "rejected"
    /\ FailsStructurally(files[2])
    /\ delivered = <<>>
    /\ error.text # <<>>
    /\ isProcessing = FALSE

\* C17: when a batch of several files has failed on a structural error
\* (missing CPT column, missing date-of-service header), the error shown
\* carries the name of a file that failed.
C17_ErrorNamesFailedFile ==
    (/\ pc = "done"
     /\ Len(files) >= 2
     /\ allPromise.state = "rejected"
     /\ allPromise.reason \in {CptColumnMessage, DosHeaderMessage}) =>
        \E i \in DOMAIN files :
            /\ promises[i].state = "rejected"
            /\ error.name = files[i].name

\* C18: when every file of the batch parsed without error to no claim at
\* all, processFiles finishes with an error message that is not a 'Failed
\* to process files: ' message, without calling onDataLoaded, with
\* isProcessing false and the loaded claim set as it was.
C18_EmptyBatchIsReported ==
    (/\ pc = "done"
     /\ files # <<>>
     /\ \A i \in DOMAIN files :
            promises[i].state = "fulfilled" /\ promises[i].result = <<>>) =>
        /\ error.text # <<>>
        /\ error.text[1] # "Failed to process files: "
        /\ error.text[1] # "Unsupported file type: "
        /\ delivered = <<>>
        /\ claims = <<>>
        /\ isProcessing = FALSE

\* Two files, a sheet and a text, both parsed without error to nothing.
C18_Witness ==
    /\ pc = "done"
    /\ Len(files) = 2
    /\ IsSheetName(files[1].name) /\ IsTextName(files[2].name)
    /\ \A i \in DOMAIN files : promises[i] = Fulfilled(<<>>)
    /\ error = NoValidDataMessage
    /\ delivered = <<>>
    /\ isProcessing = FALSE

----------------------------------------------------------------------------
(* Export and dates                                                         *)

NeedsQuoting(str) == \E i \in DOMAIN str : str[i] \in {",", "\"", "\n"}

\* C19: a field value holding a comma, a double quote or a newline, written
\* by escape and read back by parseCSVLine with the comma delimiter, gives
\* one row of one field, equal to the value character for character.
C19_QuotingRoundTrip ==
    (pc = "tokenized" /\ NeedsQuoting(value)) => tokens = <<<<value>>>>

\* A value with a comma, a quote and a newline has been written and read
\* back.
C19_Witness ==
    /\ pc = "tokenized"
    /\ {",", "\"", "\n"} \subseteq Range(value)
    /\ line # value
    /\ tokens = <<<<value>>>>

\* A numeric ascending sort on dateSort (Array.prototype.sort is stable):
\* c goes behind the claims whose key is not greater.
RECURSIVE InsertByDateSort(_, _)
InsertByDateSort(sorted, c) ==
    IF sorted = <<>> THEN <<c>>
    ELSE IF Head(sorted).dateSort <= c.dateSort
    THEN <<Head(sorted)>> \o InsertByDateSort(Tail(sorted), c)
    ELSE <<c>> \o sorted

RECURSIVE SortByDateSort(_)
SortByDateSort(cs) ==
    IF cs = <<>> THEN <<>>
    ELSE InsertByDateSort(SortByDateSort(SubSeq(cs, 1, Len(cs) - 1)), cs[Len(cs)])

UnknownFirst(cs) ==
    \A i, j \in DOMAIN cs : (cs[i].dos # <<>> /\ cs[j].dos = <<>>) => j < i

\* C20: dateSort is the service date's epoch value when the date is known
\* and 0 when it is not, and sorting a parser's claim list by ascending
\* dateSort puts every claim of unknown date before every claim of known
\* date.
C20_UnknownDatesSortFirst ==
    /\ \A c \in ProducedClaims :
        c.dateSort = IF c.dos = <<>> THEN 0 ELSE c.dos[1]
    /\ UnknownFirst(SortByDateSort(fileClaims))
    /\ \A k \in DOMAIN results : UnknownFirst(SortByDateSort(results[k]))
    /\ pc = "loaded" => UnknownFirst(SortByDateSort(claims))

\* The text a file holds anywhere, lowercased.
FileText(f) ==
    IF IsSheetName(f.name)
    THEN Flatten([k \in DOMAIN f.sheet |-> RowText(f.sheet[k]) \o <<" ">>])
    ELSE ToLowerCase(f.text)

\* C21: no delivered claim has an empty patient id or patient name, and the
\* claims of a file that holds no patient text at all have the patient id
\* "Unknown ID" and the patient name "Unknown Patient".
C21_PatientDefaults ==
    \A k \in DOMAIN delivered : \A i \in DOMAIN delivered[k] :
        LET c == delivered[k][i]
        IN /\ c.patientId # <<>>
           /\ c.patientName # <<>>
           /\ ~Includes(FileText(files[1]), <<"p", "a", "t", "i", "e", "n", "t">>) =>
                /\ c.patientId = UnknownId
                /\ c.patientName = UnknownPatient


\* C22: the DOS field exported for a claim whose date text names a calendar
\* day is the YYYY-MM-DD text of that day, whatever the machine's offset from
\* UTC, and the field of a claim without a date is empty.
C22_ExportKeepsCalendarDay ==
    pc = "exported" =>
        /\ \A k \in KnownDates : value = k.text => line = k.day
        /\ value \in UnknownDates => line = <<>>

\* What reading a character inside a quoted region does to the locals s,
\* giving t.
InsideQuotes(c, doubled, s, t) ==
    /\ t.row = s.row
    /\ t.rows = s.rows
    /\ IF c = "\"" /\ doubled
       THEN t.field = Append(s.field, "\"") /\ t.inQuotes /\ t.i = s.i + 2
       ELSE IF c = "\""
       THEN t.field = s.field /\ ~t.inQuotes /\ t.i = s.i + 1
       ELSE t.field = Append(s.field, c) /\ t.inQuotes /\ t.i = s.i + 1

\* What reading a character outside quotes does to the locals s, giving t.
OutsideQuotes(c, s, t) ==
    /\ t.i = s.i + 1
    /\ t.inQuotes = (c = "\"")
    /\ CASE c = "\"" -> t.field = s.field /\ t.row = s.row /\ t.rows = s.rows
         [] c = s.delim -> t.field = <<>> /\ t.row = Append(s.row, s.field) /\ t.rows = s.rows
         [] c = "\n" -> /\ t.field = <<>> /\ t.row = <<>>
                        /\ t.rows = Append(s.rows, Append(s.row, s.field))
         [] c = "\r" -> t.field = s.field /\ t.row = s.row /\ t.rows = s.rows
         [] OTHER -> t.field = Append(s.field, c) /\ t.row = s.row /\ t.rows = s.rows

\* C23: every step of parseCSVLine over a character follows the two-state
\* table: inside a quoted region a doubled quote appends one quote and stays
\* inside, a single quote leaves the region and every other character
\* (delimiter, newline and carriage return too) is appended, with no field or
\* row ended; outside quotes a delimiter ends the field, a newline ends the
\* row, a carriage return is dropped and a quote enters the quoted region.
C23_TwoStateMachine ==
    [][scan' # scan =>
        /\ scan.i \in DOMAIN value
        /\ scan'.delim = scan.delim
        /\ IF scan.inQuotes
           THEN InsideQuotes(value[scan.i],
                             scan.i + 1 <= Len(value) /\ value[scan.i + 1] = "\"",
                             scan, scan')
           ELSE OutsideQuotes(value[scan.i], scan, scan')]_vars

\* The text "<delimiter><newline><quote><quote> between two quotes has been
\* read to its last character: one field is being built and none has ended.
C23_Witness ==
    /\ pc = "scanning"
    /\ Len(value) = 4
    /\ scan.i = 4
    /\ scan.inQuotes
    /\ scan.field = <<scan.delim, "\n">>
    /\ scan.row = <<>> /\ scan.rows = <<>>
    /\ value[4] = "\""

\* The last position before k of a row of the sheet body that is one of
\* the given rows; 0 when there is none.
LastBefore(body, k, kinds) ==
    LET found == {p \in 1..(k - 1) : body[p] \in kinds}
    IN IF found = {} THEN 0 ELSE CHOOSE p \in found : \A q \in found : q <= p

\* The position in the body of the j-th of its rows that are among the
\* given rows.
DataRowAt(body, kinds, j) ==
    CHOOSE k \in DOMAIN body :
        body[k] \in kinds /\ Cardinality({p \in 1..k : body[p] \in kinds}) = j

IsVisitReport(f) ==
    /\ f.name = <<"v", ".", "x", "l", "s">>
    /\ f.sheet[1][1] = Str(<<"D", "a", "t", "e", " ", "o", "f", " ", "S", "e", "r", "v", "i", "c", "e">>)

\* C24: in a Patient Visit report every data row gives one claim and context
\* rows give none; the claim has the patient name and id of the last
\* 'patient:' row before it ("Unknown Patient" / "Unknown ID" where the row
\* holds none), and the payer and provider of the last 'insurance:' row
\* before it, a 'patient:' row in between leaving them as they are; with no
\* 'insurance:' row before it the payer is "Unknown Payer" and the provider
\* the fallback provider, else "Unknown Provider".
C24_VisitContext ==
    (pc = "done" /\ IsVisitReport(files[1])) =>
        LET body == Tail(files[1].sheet)
            n == Cardinality({k \in DOMAIN body : body[k] = VisitData})
            cs == Concat(delivered)
        IN /\ Len(cs) = n
           /\ \A j \in 1..n :
                LET k == DataRowAt(body, {VisitData}, j)
                    p == LastBefore(body, k, {VisitPatientAnn, VisitPatientBob})
                    i == LastBefore(body, k, {VisitInsurance})
                IN /\ cs[j].patientName = IF p = 0 THEN UnknownPatient
                                          ELSE IF body[p] = VisitPatientAnn THEN <<"A", "n", "n">>
                                          ELSE <<"B", "o", "b">>
                   /\ cs[j].patientId = IF p # 0 /\ body[p] = VisitPatientAnn THEN <<"7">>
                                        ELSE UnknownId
                   /\ cs[j].payer = IF i = 0 THEN UnknownPayer ELSE <<"A", "e", "t", "n", "a">>
                   /\ cs[j].provider = IF i = 0 THEN OrElse(providerName, UnknownProvider)
                                       ELSE <<"D", "r", " ", "Y">>

IsPaymentReport(f) ==
    /\ f.name = <<"p", ".", "x", "l", "s", "x">>
    /\ f.sheet[1][1] = Str(<<"D", "O", "S">>)

\* The rows of an Applied Payments report that are data rows: the adjustment
\* row counts as one when the header has no 'Desc.' column.
PaymentDataRows(header) ==
    {PaymentFull, PaymentBlank} \cup (IF Len(header) < 7 THEN {PaymentAdj} ELSE {})

\* The text beside the label of a 'provider name:' row.
ProviderValue(cells) ==
    IF cells = ProviderRowX THEN <<"D", "r", " ", "X">>
    ELSE IF cells = ProviderRowW THEN <<"D", "r", " ", "W">>
    ELSE <<>>

\* C25 (amended): in an Applied Payments report every data row gives one
\* claim, with units 1 and charge 0, and 'provider name:' rows and adjustment
\* rows give none; the claim's provider is the text beside the label of the
\* last 'provider name:' row before it that holds such a text, and with no
\* such row the fallback provider, else "Unknown Provider".
C25_ProviderContext ==
    (pc = "done" /\ IsPaymentReport(files[1])) =>
        LET body == Tail(files[1].sheet)
            data == PaymentDataRows(files[1].sheet[1])
            n == Cardinality({k \in DOMAIN body : body[k] \in data})
            cs == Concat(delivered)
        IN /\ Len(cs) = n
           /\ \A j \in 1..n :
                LET q == LastBefore(body, DataRowAt(body, data, j), {ProviderRowX, ProviderRowW})
                IN /\ cs[j].provider = IF q = 0 THEN OrElse(providerName, UnknownProvider)
                                       ELSE ProviderValue(body[q])
                   /\ cs[j].units = 1
                   /\ cs[j].charge = 0

\* A 'provider name:' row with no text beside the label stands between a row
\* that names Dr X and a data row, whose claim has the provider Dr X.
C25_Witness ==
    /\ pc = "done"
    /\ IsPaymentReport(files[1])
    /\ Tail(files[1].sheet) = <<ProviderRowX, ProviderRowEmpty, PaymentFull>>
    /\ Len(delivered) = 1
    /\ delivered[1][1].provider = <<"D", "r", " ", "X">>
    /\ delivered[1][1].units = 1 /\ delivered[1][1].charge = 0

\* C25 as stated: the claim's provider is the text beside the label of the
\* last 'provider name:' row before it, whatever that text is.
C25_LastProviderRow ==
    (pc = "done" /\ IsPaymentReport(files[1])) =>
        LET body == Tail(files[1].sheet)
            data == PaymentDataRows(files[1].sheet[1])
            n == Cardinality({k \in DOMAIN body : body[k] \in data})
            cs == Concat(delivered)
        IN /\ Len(cs) = n
           /\ \A j \in 1..n :
                LET q == LastBefore(body, DataRowAt(body, data, j), {ProviderRowX, ProviderRowW, ProviderRowEmpty})
                IN /\ cs[j].provider = IF q = 0 THEN OrElse(providerName, UnknownProvider)
                                       ELSE ProviderValue(body[q])
                   /\ cs[j].units = 1
                   /\ cs[j].charge = 0

\* What the parser of file i of the batch returns when run on that file
\* alone.
OwnClaims(i) == ParseFile(files[i], providerName).claims

\* Two claims are the same but for their id.
SameButId(c, d) == [c EXCEPT !.id = 0] = [d EXCEPT !.id = 0]

\* What the parsers return on the first n files of the batch, each run on
\* its file alone, one file after the other.
RECURSIVE OwnClaimsUpTo(_)
OwnClaimsUpTo(n) == IF n = 0 THEN <<>> ELSE OwnClaimsUpTo(n - 1) \o OwnClaims(n)

\* C26: each file's promise is fulfilled with what its parser returns on
\* that file alone, and the list handed to onDataLoaded is the claims of the
\* files one after the other in the order of the file list, each the same
\* but for its id, in whatever order the reads completed.
C26_MergeInFileOrder ==
    /\ \A i \in DOMAIN promises :
            promises[i].state = "fulfilled" => promises[i].result = OwnClaims(i)
    /\ \A k \in DOMAIN delivered :
            LET expected == OwnClaimsUpTo(Len(files))
            IN /\ Len(delivered[k]) = Len(expected)
               /\ \A j \in DOMAIN expected : SameButId(delivered[k][j], expected[j])

\* The read of the second file completed before that of the first, the two
\* files gave different claims, and the list was handed over.
C26_Witness ==
    /\ pc = "done"
    /\ completed = <<2, 1>>
    /\ OwnClaims(1) # <<>> /\ OwnClaims(2) # <<>>
    /\ ~SameButId(OwnClaims(1)[1], OwnClaims(2)[1])
    /\ Len(delivered) = 1
    /\ SameButId(delivered[1][1], OwnClaims(1)[1])

\* The rows of a sheet report that are data rows under its header.
SheetDataRows(f) ==
    IF f.name = <<"p", ".", "x", "l", "s", "x">> THEN PaymentDataRows(f.sheet[1]) ELSE {VisitData}

\* C27: a report whose header row was found gives one claim for every data
\* row after the header, whether the header cell of the date column reads
\* 'Date of Service' or 'DOS', in both layouts.
C27_AnchoredDateColumn ==
    (pc = "done" /\ IsSheetName(files[1].name)) =>
        LET body == Tail(files[1].sheet)
        IN Len(Concat(delivered)) =
             Cardinality({k \in DOMAIN body : body[k] \in SheetDataRows(files[1])})

\* C28: the text downloadCSV builds for a claim list, read by
\* parseClaimsData, gives as many claims in the same order, with the same
\* provider, payer, patient name, patient id, cpt, units, charge, paid and
\* isPaid.
C28_ExportRoundTrip ==
    pc = "reingested" =>
        /\ Len(fileClaims) = Len(claims)
        /\ \A i \in DOMAIN claims :
             \A f \in {"provider", "payer", "patientName", "patientId", "cpt",
                       "units", "charge", "paid", "isPaid"} :
                fileClaims[i][f] = claims[i][f]

\* C29: normalizePayerName gives the same name when applied to its own
\* result, never gives the empty string, and gives "Unknown Payer" for a
\* text with no character other than white space.
C29_PayerNameIdempotent ==
    pc = "renormalized" =>
        /\ tokens[1] = line
        /\ line # <<>>
        /\ (\A i \in DOMAIN value : IsSpace(value[i])) => line = UnknownPayer

\* What the batch of call r gives when parsed on its own.
BatchClaims(r) ==
    Reindex(Concat([i \in DOMAIN runs[r].files |->
                        ParseFile(runs[r].files[i], providerName).claims]))

\* C30: once every processFiles call has finished, the claims loaded are
\* those of the batch dropped last (when it holds claims), and while the
\* UploadScreen is shown isProcessing is true as long as a call is still
\* awaiting.
C30_LastBatchWins ==
    /\ (/\ runs # <<>>
        /\ \A r \in DOMAIN runs : runs[r].pc = "done"
        /\ BatchClaims(Len(runs)) # <<>>) => claims = BatchClaims(Len(runs))
    /\ (UploadScreenMounted /\ \E r \in DOMAIN runs : runs[r].pc = "awaiting") =>
            isProcessing

====
